---- MODULE Spec2Model ----
(***************************************************************************)
(* A model of layr's plan-generation code:                                 *)
(*   - the planner (src/unnamed/part_002): generatePlan, refinePlan,       *)
(*     hasUniqueIds, hasCycles, fallbackHeuristicPlan;                     *)
(*   - the provider clients (layr-recreated/src/llm/mistral.ts and the     *)
(*     DeepSeekClient of src/cli/commands/init.ts): generatePlan,          *)
(*     refinePlan, critique and makeRequest with its retry loop;           *)
(*   - the LayerOrchestrator (src/unnamed/part_005): generatePlan,         *)
(*     refinePlan and getCritique with their provider sequence and the     *)
(*     persisted session, also with two processes on one session file;     *)
(*   - the plan command (layr-recreated/src/cli/commands/plan.ts);         *)
(*   - parseAndValidatePlan character by character (sanitizer and          *)
(*     JSON.parse), and the task IDs it and getFallbackPlan build under a  *)
(*     clock that advances;                                                *)
(*   - LLMClient.chat (src/llmClient.ts) and the layr program              *)
(*     (src/cli.ts).                                                       *)
(* Each part has a specification of its own over the same variables.       *)
(***************************************************************************)
EXTENDS Integers, Sequences, FiniteSets, TLC

VARIABLES
    apiKey,      \* planner: whether readKey() yields a key
    planner,     \* planner: the call of generatePlan / refinePlan in progress
    retryConfig, \* provider client: this.retryConfig
    client,      \* provider client: the call in progress and its makeRequest loop
    providers,   \* orchestrator: the providers whose client was constructed
    orch,        \* orchestrator: the operation in progress
    store,       \* orchestrator: the persisted session file
    cmd,         \* plan command: the planCommand invocation in progress
    other,       \* the other invocation: orchestrator and client of a second, suspended process
    san,         \* provider client: parseAndValidatePlan's text, character by character
    chat,        \* LLMClient: the call of chat in progress
    cli,         \* CLI: the last invocation of the program and the plans it was given
    stamp        \* provider client: the task IDs stamped in one call, and the clock readings they were stamped with

vars == <<apiKey, planner, retryConfig, client, providers, orch, store, cmd, other, san, chat, cli, stamp>>

(***************************************************************************)
(* Bounds of the model.                                                    *)
(***************************************************************************)
MaxSteps == 2   \* steps in a model response
MaxId == 2      \* step IDs and dependency targets are drawn from 1..MaxId
MaxDeps == 1    \* length of a dependency list in a model response
MaxOps == 2     \* orchestrator operations run on the session
MaxCfg == 2     \* largest field value of the RetryConfig values tried besides the constructor's
MaxNodes == 2   \* steps of the plans with distinct IDs and dependencies on their own steps
MaxClock == 2   \* milliseconds the clock can advance while one plan is built
MaxStamped == 3 \* tasks of the parsed objects whose tasks are given IDs

Min(a, b) == IF a <= b THEN a ELSE b

SeqsUpTo(S, n) == UNION {[1..k -> S] : k \in 0..n}

Range(s) == {s[i] : i \in DOMAIN s}

(***************************************************************************)
(* Planner: src/unnamed/part_002                                           *)
(***************************************************************************)

\* The goals and instructions a caller passes (the empty string included).
Goals == {"", "Build a REST API"}

StepIds == 1..MaxId

\* s.dependencies of a step of a model response.  hasCycles reads an absent
\* list as the empty one (s.dependencies || []), so the empty list stands for
\* both.
DepLists == SeqsUpTo(StepIds, MaxDeps)

ResponseSteps == SeqsUpTo([id : StepIds, dependencies : DepLists], MaxSteps)

\* steps.map(s => s.id)
IdsOf(steps) == [i \in DOMAIN steps |-> steps[i].id]

\* Mutant of hasUniqueIds: the comparison of the two sizes is left out.
hasUniqueIdsUnchecked(steps) == Len(IdsOf(steps)) >= Cardinality(Range(IdsOf(steps)))

\* hasUniqueIds: ids.length === new Set(ids).size
hasUniqueIds(steps) == Len(IdsOf(steps)) = Cardinality(Range(IdsOf(steps)))

\* steps.forEach(s => { graph[s.id] = s.dependencies || []; }): a later step
\* with the same id overwrites an earlier one.
LastIndexOf(steps, id) ==
    CHOOSE i \in DOMAIN steps :
        /\ steps[i].id = id
        /\ \A j \in DOMAIN steps : steps[j].id = id => j <= i

GraphOf(steps) ==
    [id \in Range(IdsOf(steps)) |-> steps[LastIndexOf(steps, id)].dependencies]

\* dfs of hasCycles.  st holds the two sets the closure shares, visited and
\* recStack; the result is "true", "false", or "throw" when graph[id] is
\* undefined (for...of over undefined raises a TypeError).
RECURSIVE dfs(_, _, _), dfsLoop(_, _, _, _)
dfs(graph, id, st) ==
    IF id \notin st.visited
    THEN LET st1 == [visited |-> st.visited \cup {id},
                     recStack |-> st.recStack \cup {id}]
         IN  IF id \notin DOMAIN graph
             THEN [res |-> "throw", st |-> st1]
             ELSE LET r == dfsLoop(graph, graph[id], 1, st1)
                  IN  IF r.res = "false"
                      THEN [res |-> "false",
                            st |-> [r.st EXCEPT !.recStack = @ \ {id}]]
                      ELSE r
    ELSE [res |-> "false", st |-> [st EXCEPT !.recStack = @ \ {id}]]

\* for (const dep of graph[id]) { ... } from position i on
dfsLoop(graph, deps, i, st) ==
    IF i > Len(deps)
    THEN [res |-> "false", st |-> st]
    ELSE LET dep == deps[i]
         IN  IF dep \notin st.visited
             THEN LET r == dfs(graph, dep, st)
                  IN  IF r.res # "false" THEN r
                      ELSE IF dep \in r.st.recStack
                           THEN [res |-> "true", st |-> r.st]
                           ELSE dfsLoop(graph, deps, i + 1, r.st)
             ELSE IF dep \in st.recStack
                  THEN [res |-> "true", st |-> st]
                  ELSE dfsLoop(graph, deps, i + 1, st)

\* steps.some(s => dfs(s.id)) from position i on
RECURSIVE someDfs(_, _, _, _)
someDfs(graph, steps, i, st) ==
    IF i > Len(steps)
    THEN "false"
    ELSE LET r == dfs(graph, steps[i].id, st)
         IN  IF r.res # "false" THEN r.res
             ELSE someDfs(graph, steps, i + 1, r.st)

\* Mutant of hasCycles: the search starts from the first step only.
hasCyclesFromFirstStep(steps) ==
    IF steps = <<>> THEN "false"
    ELSE dfs(GraphOf(steps), steps[1].id, [visited |-> {}, recStack |-> {}]).res

\* hasCycles: "true", "false" or "throw"
hasCycles(steps) ==
    someDfs(GraphOf(steps), steps, 1, [visited |-> {}, recStack |-> {}])

FallbackSteps ==
    << [id |-> 1, title |-> "Initialize project", dependencies |-> <<>>],
       [id |-> 2, title |-> "Create model", dependencies |-> <<1>>],
       [id |-> 3, title |-> "Add routes", dependencies |-> <<2>>],
       [id |-> 4, title |-> "Test project", dependencies |-> <<3>>] >>

\* Mutant of fallbackHeuristicPlan: step 3 depends on step 1 instead of step 2.
fallbackHeuristicPlanBrokenChain(goal) ==
    [id |-> "local-fallback",
     title |-> "Plan for: " \o goal,
     goal |-> goal,
     steps |-> [FallbackSteps EXCEPT ![3].dependencies = <<1>>]]

\* Mutant of fallbackHeuristicPlan: step 1 depends on the last step.
fallbackHeuristicPlanForwardDependency(goal) ==
    [id |-> "local-fallback",
     title |-> "Plan for: " \o goal,
     goal |-> goal,
     steps |-> [FallbackSteps EXCEPT ![1].dependencies = <<4>>]]

fallbackHeuristicPlan(goal) ==
    [id |-> "local-fallback",
     title |-> "Plan for: " \o goal,
     goal |-> goal,
     steps |-> FallbackSteps]

\* What llm.chat resolves to: text that is no JSON, a JSON object without a
\* steps array, or a plan-shaped object.
Responses ==
    {[kind |-> "notjson", steps |-> <<>>], [kind |-> "nosteps", steps |-> <<>>]}
    \cup {[kind |-> "plan", steps |-> s] : s \in ResponseSteps}

\* The errors llm.chat rejects with.
ChatErrors ==
    {"Unauthorized: Invalid API key",
     "Rate limit exceeded. Please wait a few minutes and try again.",
     "Mock LLM error"}

\* Mutant of ParsedPlan: the steps come out in the reverse order.
ParsedPlanReversed(resp) ==
    [id |-> "model-plan", title |-> "Model plan", goal |-> "model goal",
     steps |-> [i \in 1..Len(resp.steps) |-> resp.steps[Len(resp.steps) + 1 - i]]]

\* llm.parseJsonResponse<Plan>(raw) of a plan-shaped response
ParsedPlan(resp) ==
    [id |-> "model-plan", title |-> "Model plan", goal |-> "model goal",
     steps |-> resp.steps]

\* The place of a plan where there is none.
NoPlan == [id |-> "", title |-> "", goal |-> "", steps |-> <<>>]

\* A call's outcome: the plan it returned or the message of the error it threw.
PlanResult(plan) == [kind |-> "plan", plan |-> plan, msg |-> ""]

ErrorResult(msg) == [kind |-> "error", plan |-> NoPlan, msg |-> msg]

NoResult == [kind |-> "none", plan |-> NoPlan, msg |-> ""]

\* The try block of generatePlan / refinePlan: parse, hasUniqueIds, hasCycles.
ValidateResponse(resp) ==
    IF resp.kind = "notjson"
    THEN ErrorResult("Invalid plan format: Failed to parse JSON response")
    ELSE IF resp.kind = "nosteps"
    THEN ErrorResult("Invalid plan format: Cannot read properties of undefined (reading 'map')")
    ELSE IF ~hasUniqueIds(resp.steps)
    THEN ErrorResult("Invalid plan format: Step IDs must be unique")
    ELSE LET c == hasCycles(resp.steps)
         IN  IF c = "true"
             THEN ErrorResult("Invalid plan format: Plan has cyclic dependencies")
             ELSE IF c = "throw"
             THEN ErrorResult("Invalid plan format: graph[id] is not iterable")
             ELSE PlanResult(ParsedPlan(resp))

\* The plans a caller hands to refinePlan.
RefineInputs ==
    {fallbackHeuristicPlan("Build a REST API"),
     [id |-> "stored-plan", title |-> "Stored", goal |-> "g",
      steps |-> << [id |-> 1, dependencies |-> <<>>] >>]}

\* No response yet (raw is unassigned).
NoResponse == [kind |-> "none", steps |-> <<>>]

PlannerIdle ==
    [pc |-> "idle", op |-> "none", goal |-> "", input |-> NoPlan,
     chat |-> "none", chatCalls |-> 0, raw |-> NoResponse, out |-> NoResult]

\* generatePlan(goal) up to its first await of llm.chat, or to its return
\* when readKey() yields no key.
BeginPlannerGeneratePlan(goal) ==
    IF apiKey
    THEN [pc |-> "chat", op |-> "generatePlan", goal |-> goal,
          input |-> NoPlan, chat |-> "pending", chatCalls |-> 1,
          raw |-> NoResponse, out |-> NoResult]
    ELSE [pc |-> "done", op |-> "generatePlan", goal |-> goal,
          input |-> NoPlan, chat |-> "none", chatCalls |-> 0,
          raw |-> NoResponse, out |-> PlanResult(fallbackHeuristicPlan(goal))]

\* A caller of the planner invokes generatePlan.
PlannerGeneratePlan(goal) ==
    /\ planner.pc \in {"idle", "done"}
    /\ planner' = BeginPlannerGeneratePlan(goal)
    /\ UNCHANGED <<apiKey, retryConfig, client, providers, orch, store, cmd, other, san, chat, cli, stamp>>

\* refinePlan(plan, instruction) up to its first await of llm.chat, or to its
\* return when readKey() yields no key.
PlannerRefinePlan(plan, instruction) ==
    /\ planner.pc \in {"idle", "done"}
    /\ planner' =
         IF apiKey
         THEN [pc |-> "chat", op |-> "refinePlan", goal |-> instruction,
               input |-> plan, chat |-> "pending", chatCalls |-> 1,
               raw |-> NoResponse, out |-> NoResult]
         ELSE [pc |-> "done", op |-> "refinePlan", goal |-> instruction,
               input |-> plan, chat |-> "none", chatCalls |-> 0,
               raw |-> NoResponse, out |-> PlanResult(plan)]
    /\ UNCHANGED <<apiKey, retryConfig, client, providers, orch, store, cmd, other, san, chat, cli, stamp>>

\* llm.chat resolves with raw text: the try block runs to a return or a throw.
PlannerChatReturns ==
    /\ planner.pc = "chat"
    /\ \E resp \in Responses :
           planner' = [planner EXCEPT !.pc = "done", !.chat = "returned",
                                      !.raw = resp,
                                      !.out = ValidateResponse(resp)]
    /\ UNCHANGED <<apiKey, retryConfig, client, providers, orch, store, cmd, other, san, chat, cli, stamp>>

\* The orders in which the elements of a set can be listed.
Perms(S) == {f \in [1..Cardinality(S) -> S] : Range(f) = S}

\* The dependency lists over a set of steps: every subset in every order.
OrderedSubsets(S) == UNION {Perms(T) : T \in SUBSET S}

\* The plans of n steps with the IDs 1..n, the steps in every order and every
\* step with every dependency list on steps of the plan.
ClosedPlansOf(n) ==
    {[i \in 1..n |-> [id |-> od[1][i], dependencies |-> od[2][od[1][i]]]] :
        od \in Perms(1..n) \X [1..n -> OrderedSubsets(1..n)]}

\* The plan {1 -> [], 2 -> [1], 3 -> [2, 4], 4 -> [3]} and the same plan with
\* 4 -> [], as maps from a step's ID to its dependency list.
ExampleCyclicDeps == <<{}, {1}, {2, 4}, {3}>>

ExampleAcyclicDeps == <<{}, {1}, {2, 4}, {}>>

\* A plan of these dependencies, with the steps and each list in some order.
PlansOfDeps(D) ==
    {[i \in DOMAIN D |-> [id |-> od[1][i], dependencies |-> od[2][od[1][i]]]] :
        od \in Perms(DOMAIN D)
               \X {d \in [DOMAIN D -> UNION {Perms(D[k]) : k \in DOMAIN D}] :
                      \A k \in DOMAIN D : d[k] \in Perms(D[k])}}

ExamplePlans == PlansOfDeps(ExampleCyclicDeps) \cup PlansOfDeps(ExampleAcyclicDeps)

\* llm.chat resolves with a plan whose step IDs are distinct and whose
\* dependencies all name steps of the plan (one of ClosedPlansOf(n) for some
\* n, or one of the example plans): the try block runs to a return or a
\* throw.
PlannerChatReturnsClosedPlan ==
    /\ planner.pc = "chat"
    /\ \E n \in 0..MaxNodes :
         \E steps \in (IF n = 0 THEN ExamplePlans ELSE {}) \cup ClosedPlansOf(n) :
           LET resp == [kind |-> "plan", steps |-> steps]
           IN  planner' = [planner EXCEPT !.pc = "done", !.chat = "returned",
                                          !.raw = resp,
                                          !.out = ValidateResponse(resp)]
    /\ UNCHANGED <<apiKey, retryConfig, client, providers, orch, store, cmd, other, san, chat, cli, stamp>>

\* llm.chat rejects: the await is outside the try block, the error leaves
\* generatePlan / refinePlan as it is.
PlannerChatThrows(err) ==
    /\ planner.pc = "chat"
    /\ planner' = [planner EXCEPT !.pc = "done", !.chat = "threw",
                                  !.out = ErrorResult(err)]
    /\ UNCHANGED <<apiKey, retryConfig, client, providers, orch, store, cmd, other, san, chat, cli, stamp>>

(***************************************************************************)
(* Provider clients: MistralClient (layr-recreated/src/llm/mistral.ts) and *)
(* DeepSeekClient (src/cli/commands/init.ts).  The two classes differ in   *)
(* their name, endpoint and log texts only.                                *)
(***************************************************************************)

Providers == {"mistral", "deepseek"}

\* this.retryConfig as the constructors set it
DefaultMaxRetries == 5
DefaultBaseDelay == 2000
DefaultMaxDelay == 30000
DefaultBackoffFactor == 2

DefaultRetryConfig ==
    [maxRetries |-> DefaultMaxRetries, baseDelay |-> DefaultBaseDelay,
     maxDelay |-> DefaultMaxDelay, backoffFactor |-> DefaultBackoffFactor]

\* RetryConfig values: the constructor's, and small ones that let the cap and
\* the growth factor act within few attempts.  maxDelay is even, so that
\* maxDelay / 2 is an integer.
RetryConfigs ==
    {DefaultRetryConfig}
    \cup [maxRetries : 0..MaxCfg, baseDelay : 0..MaxCfg,
          maxDelay : {2 * k : k \in 0..MaxCfg}, backoffFactor : 1..MaxCfg]

\* Math.pow on non-negative integers
RECURSIVE Pow(_, _)
Pow(b, e) == IF e = 0 THEN 1 ELSE b * Pow(b, e - 1)

\* error.response?.status of a failed axios.post; 0 stands for an error
\* without a response (network failure, timeout).
NoResponseStatus == 0

HttpStatuses == {429, 402, 502, 503, 400, 404, 500, NoResponseStatus}

\* Mutant of RetryDelay: the rate-limit branch multiplies by 2 instead of 3.
RetryDelayRateLimitDoubled(status, attempt) ==
    LET grown == retryConfig.baseDelay * Pow(retryConfig.backoffFactor, attempt)
    IN  IF status = 429 \/ status = 402 THEN Min(grown * 2, retryConfig.maxDelay)
        ELSE IF status = 503 \/ status = 502
             THEN Min(grown, retryConfig.maxDelay \div 2)
        ELSE Min(grown, retryConfig.maxDelay)

\* Mutant of RetryDelay: the delays are not capped.
RetryDelayUncapped(status, attempt) ==
    LET grown == retryConfig.baseDelay * Pow(retryConfig.backoffFactor, attempt)
    IN  IF status = 429 THEN grown * 3
        ELSE IF status = 402 THEN grown * 2
        ELSE grown

\* The delay makeRequest computes in the catch block for a failure with this
\* status at this attempt index.
RetryDelay(status, attempt) ==
    LET grown == retryConfig.baseDelay * Pow(retryConfig.backoffFactor, attempt)
    IN  IF status = 429 THEN Min(grown * 3, retryConfig.maxDelay)
        ELSE IF status = 402 THEN Min(grown * 2, retryConfig.maxDelay)
        ELSE IF status = 503 \/ status = 502
             THEN Min(grown, retryConfig.maxDelay \div 2)
        ELSE Min(grown, retryConfig.maxDelay)

\* Mutant of IsClientError: only the authentication statuses stop the retries.
IsClientErrorAuthOnly(status) == status \in {401, 403}

\* error.response?.status && error.response.status < 500, reached when the
\* status is none of 429, 402, 503, 502
IsClientError(status) == status # NoResponseStatus /\ status < 500

\* Mutant of CatchAction: an exhausted quota (402) is rethrown at once.
CatchActionQuotaFatal(status, attempt) ==
    IF status \in {429, 503, 502} THEN "sleep"
    ELSE IF status # NoResponseStatus /\ status < 500 THEN "throw"
    ELSE IF attempt < retryConfig.maxRetries THEN "sleep"
    ELSE "next"

\* What the catch block does with a failure: "sleep" (wait, then the next
\* iteration), "throw" (rethrow at once) or "next" (fall out of the catch
\* block without waiting).
CatchAction(status, attempt) ==
    IF status \in {429, 402, 503, 502} THEN "sleep"
    ELSE IF IsClientError(status) THEN "throw"
    ELSE IF attempt < retryConfig.maxRetries THEN "sleep"
    ELSE "next"

\* Mutant of LoopContinues: the loop runs for more than twice the attempts.
LoopContinuesTwiceAsLong(attempt) == attempt <= 2 * retryConfig.maxRetries + 2

\* Mutant of LoopContinues: one iteration too many.
LoopContinuesOnceMore(attempt) == attempt <= retryConfig.maxRetries + 1

\* The loop condition of makeRequest
LoopContinues(attempt) == attempt <= retryConfig.maxRetries

\* An error of axios.post: its status and the request (counted from 1 within
\* the makeRequest call) that raised it.
HttpError(status, req) == [status |-> status, req |-> req]

NoError == [status |-> -1, req |-> 0]

\* response.choices[0]?.message?.content of a successful response: none,
\* text that is no JSON, JSON without the required fields, a plan object
\* without tasks, and plan objects with tasks (ModelTasks).
Contents ==
    {"", "not json", "{}", "{plan}",
     "{plan: A; B after 'A'}",
     "{plan: A; B after 'task_now_0'}",
     "{plan: A after 'task_earlier_0'}"}

\* parsed.tasks of a plan object: the model gives a task a title and a
\* dependency list, whose entries are whatever text it chose (a task's title,
\* a task ID of the plan it was shown, a guess of the ID the task will get).
ModelTask(title, dependencies) == [title |-> title, dependencies |-> dependencies]

ModelTasks(content) ==
    CASE content = "{plan: A; B after 'A'}" ->
             << ModelTask("A", <<>>), ModelTask("B", <<"A">>) >>
      [] content = "{plan: A; B after 'task_now_0'}" ->
             << ModelTask("A", <<>>), ModelTask("B", <<"task_now_0">>) >>
      [] content = "{plan: A after 'task_earlier_0'}" ->
             << ModelTask("A", <<"task_earlier_0">>) >>
      [] OTHER -> <<>>

\* A Task: its id, title and dependencies stand for the whole value.
Task(id, title, dependencies) ==
    [id |-> id, title |-> title, dependencies |-> dependencies]

\* `task_${Date.now()}_${index}`, the clock reading "now" during the call
TaskId(index) == "task_now_" \o ToString(index)

\* parsed.tasks.map((task, index) => ({id: ..., dependencies: task.dependencies || []}))
\* (array indices count from 0)
MapTasks(tasks) ==
    [i \in DOMAIN tasks |-> Task(TaskId(i - 1), tasks[i].title, tasks[i].dependencies)]

\* content before a response has arrived
NoContent == "<no response>"

\* The plans of the provider clients: id, title, description, tasks and
\* createdAt stand for the whole Plan value.
ClientPlan(id, title, description, tasks, createdAt) ==
    [id |-> id, title |-> title, description |-> description, tasks |-> tasks,
     createdAt |-> createdAt]

\* parseAndValidatePlan: the plan, or the error it throws
parseAndValidatePlan(content) ==
    IF content = "not json"
    THEN ErrorResult("Failed to parse plan: Unexpected token")
    ELSE IF content = "{}"
    THEN ErrorResult("Failed to parse plan: Invalid plan structure")
    ELSE PlanResult(ClientPlan("plan_now_random", "Model plan",
                               "Model description",
                               MapTasks(ModelTasks(content)), "now"))

\* getFallbackPlan (the prompts of the model are shorter than 50 characters,
\* so prompt.substring(0, 50) is the prompt)
FallbackTasks ==
    << Task(TaskId(1), "Research and Planning", <<>>),
       Task(TaskId(2), "Implementation", <<TaskId(1)>>),
       Task(TaskId(3), "Review and Testing", <<TaskId(2)>>) >>

getFallbackPlan(prompt) ==
    ClientPlan("plan_now_fallback", "Plan for: " \o prompt \o "...",
               "This is a fallback plan generated when the AI service is unavailable. Please review and customize as needed.",
               FallbackTasks, "now")

CritiqueUnavailable ==
    "Expert critique unavailable due to API error. Consider reviewing the plan manually for completeness, realistic timelines, and proper task organization."

TextResult(text) == [kind |-> "text", plan |-> NoPlan, msg |-> text]

\* The plans a caller hands to a client's refinePlan or critique.
ClientInputPlans ==
    {ClientPlan("plan_earlier_abc", "Earlier plan", "d",
                << Task("task_earlier_0", "Earlier task", <<>>) >>, "earlier")}

\* The catch block of generatePlan / refinePlan / critique
OpCatch(c) ==
    IF c.op = "generatePlan" THEN PlanResult(getFallbackPlan(c.prompt))
    ELSE IF c.op = "refinePlan" THEN PlanResult(c.input)
    ELSE TextResult(CritiqueUnavailable)

\* The try block of generatePlan / refinePlan / critique after makeRequest
\* has returned a response with this content
OpTry(c, content) ==
    IF c.op = "critique"
    THEN TextResult(IF content = "" THEN "Unable to generate critique." ELSE content)
    ELSE IF content = "" THEN OpCatch(c)
    ELSE LET parsed == parseAndValidatePlan(content)
         IN  IF parsed.kind = "error" THEN OpCatch(c)
             ELSE IF c.op = "generatePlan" THEN parsed
             ELSE PlanResult([parsed.plan EXCEPT !.id = c.input.id,
                                                 !.createdAt = c.input.createdAt])

ClientIdle ==
    [pc |-> "idle", provider |-> "none", op |-> "none", prompt |-> "",
     input |-> NoPlan, attempt |-> 0, requests |-> 0, sleeps |-> 0,
     delay |-> 0, slept |-> NoError, prevDelay |-> 0, prevSlept |-> NoError,
     lastError |-> NoError, all503 |-> TRUE,
     mr |-> "none", thrown |-> NoError, content |-> NoContent, out |-> NoResult]

\* A client operation from its call to the first axios.post of makeRequest.
BeginCall(provider, op, prompt, plan) ==
    [ClientIdle EXCEPT !.pc = "request", !.provider = provider, !.op = op,
                       !.prompt = prompt, !.input = plan, !.requests = 1,
                       !.mr = "pending"]

\* makeRequest throws err: the operation's catch block runs and the operation
\* returns.
MakeRequestThrows(c, err) ==
    [c EXCEPT !.pc = "done", !.mr = "threw", !.thrown = err, !.out = OpCatch(c)]

\* The loop's attempt++ and condition after an iteration without a return:
\* the next axios.post, or throw lastError after the loop.
NextIteration(c) ==
    IF LoopContinues(c.attempt + 1)
    THEN [c EXCEPT !.pc = "request", !.attempt = @ + 1, !.requests = @ + 1]
    ELSE MakeRequestThrows([c EXCEPT !.attempt = @ + 1], c.lastError)

\* A caller outside the orchestrator invokes a client operation.
ClientCall(provider, op, prompt, plan) ==
    /\ client.pc \in {"idle", "done"}
    /\ orch.pc = "idle"
    /\ client' = BeginCall(provider, op, prompt, plan)
    /\ UNCHANGED <<apiKey, planner, retryConfig, providers, orch, store, cmd, other, san, chat, cli, stamp>>

\* axios.post rejects: the catch block of makeRequest up to its sleep, its
\* throw, or the next request.
ClientHttpFails(status) ==
    /\ client.pc = "request"
    /\ LET err == HttpError(status, client.requests)
           c == [client EXCEPT !.lastError = err,
                               !.all503 = @ /\ status = 503]
           act == CatchAction(status, client.attempt)
       IN  client' =
             IF act = "sleep"
             THEN [c EXCEPT !.pc = "sleep", !.sleeps = @ + 1, !.slept = err,
                            !.delay = RetryDelay(status, client.attempt),
                            !.prevSlept = client.slept,
                            !.prevDelay = client.delay]
             ELSE IF act = "throw" THEN MakeRequestThrows(c, err)
             ELSE NextIteration(c)
    /\ UNCHANGED <<apiKey, planner, retryConfig, providers, orch, store, cmd, other, san, chat, cli, stamp>>

\* The sleep's timer fires: continue with the next iteration.
ClientWakes ==
    /\ client.pc = "sleep"
    /\ client' = NextIteration(client)
    /\ UNCHANGED <<apiKey, planner, retryConfig, providers, orch, store, cmd, other, san, chat, cli, stamp>>

\* axios.post resolves: makeRequest returns response.data and the operation
\* runs to its return.
ClientHttpSucceeds(content) ==
    /\ client.pc = "request"
    /\ client' = [client EXCEPT !.pc = "done", !.mr = "returned",
                                !.content = content,
                                !.out = OpTry(client, content)]
    /\ UNCHANGED <<apiKey, planner, retryConfig, providers, orch, store, cmd, other, san, chat, cli, stamp>>

(***************************************************************************)
(* The provider clients' task IDs under a clock that advances: every       *)
(* Date.now() in parseAndValidatePlan and getFallbackPlan is a read of its *)
(* own, and the millisecond may change between two reads.                  *)
(***************************************************************************)

\* The clock readings of n successive Date.now() calls: no reading is earlier
\* than the one before.
Readings(n) ==
    {r \in [1..n -> 0..MaxClock] : \A i \in 1..(n - 1) : r[i] <= r[i + 1]}

\* Mutant of TaskIdAt: the index is left out of the ID.
TaskIdAtWithoutIndex(now, index) == "task_" \o ToString(now)

\* `task_${Date.now()}_${index}` with the reading of its Date.now()
TaskIdAt(now, index) == "task_" \o ToString(now) \o "_" \o ToString(index)

\* An element of parsed.tasks: besides title and dependencies, the id field
\* the model supplied ("" when it supplied none).
SuppliedTask(id, title, dependencies) ==
    [id |-> id, title |-> title, dependencies |-> dependencies]

SuppliedTasks ==
    {SuppliedTask(id, "A", deps) : id \in {"", "t1", "task_0_0"},
                                   deps \in {<<>>, <<"t1">>}}

\* parsed.tasks of the objects tried
ParsedTaskLists == UNION {[1..n -> SuppliedTasks] : n \in 0..MaxStamped}

\* parsed.tasks.map((task, index) => ({id: `task_${Date.now()}_${index}`, ...})):
\* readings[i] is the Date.now() of the callback's call for the element of
\* index i - 1; the element's own id field is not read.
MapTasksAt(tasks, readings) ==
    [i \in DOMAIN tasks |->
        Task(TaskIdAt(readings[i], i - 1), tasks[i].title, tasks[i].dependencies)]

\* The tasks array of getFallbackPlan.  The five Date.now() calls of the
\* literal run in source order: the id of task 1, the id of task 2, the
\* dependency of task 2, the id of task 3, the dependency of task 3.
FallbackTasksAt(readings) ==
    << Task(TaskIdAt(readings[1], 1), "Research and Planning", <<>>),
       Task(TaskIdAt(readings[2], 2), "Implementation",
            <<TaskIdAt(readings[3], 1)>>),
       Task(TaskIdAt(readings[4], 3), "Review and Testing",
            <<TaskIdAt(readings[5], 2)>>) >>

StampIdle ==
    [pc |-> "idle", op |-> "none", input |-> <<>>, readings |-> <<>>,
     tasks |-> <<>>]

\* parseAndValidatePlan builds the tasks of a parsed object, each Date.now()
\* of the map callback reading the clock anew.
StampParsedTasks ==
    /\ stamp.pc = "idle"
    /\ \E tasks \in ParsedTaskLists :
           \E readings \in Readings(Len(tasks)) :
               stamp' = [pc |-> "done", op |-> "parseAndValidatePlan",
                         input |-> tasks, readings |-> readings,
                         tasks |-> MapTasksAt(tasks, readings)]
    /\ UNCHANGED <<apiKey, planner, retryConfig, client, providers, orch, store, cmd, other, san, chat, cli>>

\* getFallbackPlan builds its three tasks, with five reads of the clock.
StampFallbackTasks ==
    /\ stamp.pc = "idle"
    /\ \E readings \in Readings(5) :
           stamp' = [pc |-> "done", op |-> "getFallbackPlan", input |-> <<>>,
                     readings |-> readings, tasks |-> FallbackTasksAt(readings)]
    /\ UNCHANGED <<apiKey, planner, retryConfig, client, providers, orch, store, cmd, other, san, chat, cli>>

(***************************************************************************)
(* LayerOrchestrator: src/unnamed/part_005                                 *)
(***************************************************************************)

\* The prompts the orchestrator's callers pass.
OrchPrompts == {"Build a REST API"}

\* The feedback the callers of refinePlan pass.
OrchFeedbacks == {"Add tests"}

Message(role, content) == [role |-> role, content |-> content]

\* The session file before createSession has written it.
NoSession ==
    [exists |-> FALSE, conversation |-> <<>>, plans |-> <<>>,
     hasCurrentPlan |-> FALSE, currentPlan |-> NoPlan,
     totalInteractions |-> 0, llmProvider |-> "none"]

\* The session createSession saves.
NewSession == [NoSession EXCEPT !.exists = TRUE]

\* How the primary provider's call ended, kept for the rest of the operation.
NoCall == [mr |-> "none", all503 |-> FALSE, requests |-> 0, kind |-> "none"]

CallSummary(c) ==
    [mr |-> c.mr, all503 |-> c.all503, requests |-> c.requests, kind |-> c.out.kind]

\* loaded keeps the session as getSession returned it, session is the object
\* the operation works on.
OrchIdle ==
    [pc |-> "idle", op |-> "none", provider |-> "none", prompt |-> "",
     loaded |-> NoSession, session |-> NoSession, lastError |-> "",
     calls |-> [p \in Providers |-> 0], primary |-> NoCall, out |-> NoResult]

\* get availableProviders
availableProviders == providers

\* getLLMClient(provider) is defined
HasClient(provider) == provider \in providers

\* provider === 'mistral' ? 'deepseek' : 'mistral'
FallbackProviderOf(provider) == IF provider = "mistral" THEN "deepseek" ELSE "mistral"

ClientNotAvailable(provider) ==
    provider \o " client not available. Check your API key configuration."

\* Mutant of GenerateFailure: the error is thrown without the save.
GenerateFailureUnsaved(o) ==
    LET text == IF o.lastError = "" THEN "All providers failed" ELSE o.lastError
        session == [o.session EXCEPT !.conversation =
                       Append(@, Message("assistant", "Failed to generate plan: " \o text))]
    IN  [orch |-> [o EXCEPT !.pc = "done", !.session = session,
                            !.out = ErrorResult(text)],
         store |-> store,
         client |-> client]

\* generatePlan, the block under `if (!plan)`: the error message is appended,
\* the session saved and lastError thrown.
GenerateFailure(o) ==
    LET text == IF o.lastError = "" THEN "All providers failed" ELSE o.lastError
        session == [o.session EXCEPT !.conversation =
                       Append(@, Message("assistant", "Failed to generate plan: " \o text))]
    IN  [orch |-> [o EXCEPT !.pc = "done", !.session = session,
                            !.out = ErrorResult(text)],
         store |-> session,
         client |-> client]

\* Mutant of GenerateSuccess: session.currentPlan is not assigned.
GenerateSuccessWithoutCurrentPlan(o, plan) ==
    LET session == [o.session EXCEPT
                       !.conversation =
                           Append(@, Message("assistant", "Generated plan: " \o plan.title)),
                       !.plans = Append(@, plan),
                       !.llmProvider = o.provider,
                       !.totalInteractions = @ + 1]
    IN  [orch |-> [o EXCEPT !.pc = "done", !.session = session,
                            !.out = PlanResult(plan)],
         store |-> session,
         client |-> client]

\* Mutant of GenerateSuccess: the operation's messages and plan are added to
\* the session as it is on disk at the time of the save.
GenerateSuccessOnStoredSession(o, plan) ==
    LET added == SubSeq(o.session.conversation, Len(o.loaded.conversation) + 1,
                        Len(o.session.conversation))
        session == [store EXCEPT
                       !.conversation =
                           Append(@ \o added,
                                  Message("assistant", "Generated plan: " \o plan.title)),
                       !.plans = Append(@, plan),
                       !.hasCurrentPlan = TRUE,
                       !.currentPlan = plan,
                       !.llmProvider = o.provider,
                       !.totalInteractions = @ + 1]
    IN  [orch |-> [o EXCEPT !.pc = "done", !.session = session,
                            !.out = PlanResult(plan)],
         store |-> session,
         client |-> client]

\* generatePlan after a provider returned a plan: the assistant message, the
\* plan in plans and currentPlan, the metadata, the save and the return.
GenerateSuccess(o, plan) ==
    LET session == [o.session EXCEPT
                       !.conversation =
                           Append(@, Message("assistant", "Generated plan: " \o plan.title)),
                       !.plans = Append(@, plan),
                       !.hasCurrentPlan = TRUE,
                       !.currentPlan = plan,
                       !.llmProvider = o.provider,
                       !.totalInteractions = @ + 1]
    IN  [orch |-> [o EXCEPT !.pc = "done", !.session = session,
                            !.out = PlanResult(plan)],
         store |-> session,
         client |-> client]

\* refinePlan, the block under `if (!refinedPlan)`
RefineFailure(o) ==
    LET text == IF o.lastError = "" THEN "All providers failed" ELSE o.lastError
        session == [o.session EXCEPT !.conversation =
                       Append(@, Message("assistant", "Failed to refine plan: " \o text))]
    IN  [orch |-> [o EXCEPT !.pc = "done", !.session = session,
                            !.out = ErrorResult(
                                IF o.lastError = ""
                                THEN "All providers failed for plan refinement"
                                ELSE o.lastError)],
         store |-> session,
         client |-> client]

\* refinePlan after a provider returned a plan: the assistant message, the
\* plan as currentPlan and in plans, the metadata, the save and the return.
RefineSuccess(o, plan) ==
    LET session == [o.session EXCEPT
                       !.conversation =
                           Append(@, Message("assistant", "Refined plan: " \o plan.title)),
                       !.currentPlan = plan,
                       !.plans = Append(@, plan),
                       !.totalInteractions = @ + 1]
    IN  [orch |-> [o EXCEPT !.pc = "done", !.session = session,
                            !.out = PlanResult(plan)],
         store |-> session,
         client |-> client]

OpFailure(o) == IF o.op = "refinePlan" THEN RefineFailure(o) ELSE GenerateFailure(o)

OpSuccess(o, plan) ==
    IF o.op = "refinePlan" THEN RefineSuccess(o, plan) ELSE GenerateSuccess(o, plan)

\* The plan argument of the provider client's operation: session.currentPlan
\* for tryRefinePlan, none for tryGeneratePlan.
PlanArgument(o) == IF o.op = "refinePlan" THEN o.session.currentPlan ELSE NoPlan

\* Mutant of HasFallback: the number of configured providers is not looked at.
HasFallbackWhenOtherConfigured(provider) ==
    FallbackProviderOf(provider) \in availableProviders

\* this.availableProviders.length > 1 and
\* this.availableProviders.includes(fallbackProvider)
HasFallback(provider) ==
    /\ Cardinality(availableProviders) > 1
    /\ FallbackProviderOf(provider) \in availableProviders

\* generatePlan / refinePlan after the primary provider failed: the fallback
\* provider's call when there is one, the failure block otherwise.
AfterPrimaryFailure(o) ==
    LET fallbackProvider == FallbackProviderOf(o.provider)
    IN  IF HasFallback(o.provider)
        THEN [orch |-> [o EXCEPT !.pc = "fallback",
                                 !.calls[fallbackProvider] = @ + 1],
              store |-> store,
              client |-> BeginCall(fallbackProvider, o.op, o.prompt, PlanArgument(o))]
        ELSE OpFailure(o)

\* createSession
OrchCreateSession ==
    /\ orch.pc = "idle"
    /\ ~store.exists
    /\ store' = NewSession
    /\ UNCHANGED <<apiKey, planner, retryConfig, client, providers, orch, cmd, other, san, chat, cli, stamp>>

\* generatePlan(sessionId, userPrompt, provider) up to its first await of a
\* provider client, or to its throw: the orchestrator's operation, the
\* session file and the provider client after it.
BeginGeneratePlan(userPrompt, provider) ==
    LET o == [OrchIdle EXCEPT !.op = "generatePlan", !.provider = provider,
                              !.prompt = userPrompt]
    IN  IF ~store.exists
        THEN [orch |-> [o EXCEPT !.pc = "done",
                                 !.out = ErrorResult("Session not found")],
              store |-> store,
              client |-> client]
        ELSE LET o1 == [o EXCEPT !.loaded = store,
                                 !.session =
                           [store EXCEPT !.conversation =
                               Append(@, Message("user", userPrompt))]]
             IN  IF HasClient(provider)
                 THEN [orch |-> [o1 EXCEPT !.pc = "primary",
                                           !.calls[provider] = @ + 1],
                       store |-> store,
                       client |-> BeginCall(provider, "generatePlan",
                                            userPrompt, NoPlan)]
                 ELSE AfterPrimaryFailure(
                          [o1 EXCEPT !.lastError = ClientNotAvailable(provider)])

\* Mutant of BeginRefinePlan: a session without a current plan is let through.
BeginRefinePlanWithoutPlanCheck(feedback, provider) ==
    LET o == [OrchIdle EXCEPT !.op = "refinePlan", !.provider = provider,
                              !.prompt = feedback]
    IN  IF ~store.exists
        THEN [orch |-> [o EXCEPT !.pc = "done",
                                 !.out = ErrorResult("Session or current plan not found")],
              store |-> store,
              client |-> client]
        ELSE LET o1 == [o EXCEPT !.loaded = store,
                                 !.session =
                           [store EXCEPT !.conversation =
                               Append(@, Message("user", "Refine plan: " \o feedback))]]
             IN  IF HasClient(provider)
                 THEN [orch |-> [o1 EXCEPT !.pc = "primary",
                                           !.calls[provider] = @ + 1],
                       store |-> store,
                       client |-> BeginCall(provider, "refinePlan",
                                            feedback, o1.session.currentPlan)]
                 ELSE AfterPrimaryFailure(
                          [o1 EXCEPT !.lastError = ClientNotAvailable(provider)])

\* refinePlan(sessionId, feedback, provider) up to its first await of a
\* provider client, or to its throw.
BeginRefinePlan(feedback, provider) ==
    LET o == [OrchIdle EXCEPT !.op = "refinePlan", !.provider = provider,
                              !.prompt = feedback]
    IN  IF ~store.exists \/ ~store.hasCurrentPlan
        THEN [orch |-> [o EXCEPT !.pc = "done",
                                 !.out = ErrorResult("Session or current plan not found")],
              store |-> store,
              client |-> client]
        ELSE LET o1 == [o EXCEPT !.loaded = store,
                                 !.session =
                           [store EXCEPT !.conversation =
                               Append(@, Message("user", "Refine plan: " \o feedback))]]
             IN  IF HasClient(provider)
                 THEN [orch |-> [o1 EXCEPT !.pc = "primary",
                                           !.calls[provider] = @ + 1],
                       store |-> store,
                       client |-> BeginCall(provider, "refinePlan",
                                            feedback, o1.session.currentPlan)]
                 ELSE AfterPrimaryFailure(
                          [o1 EXCEPT !.lastError = ClientNotAvailable(provider)])

\* getCritique(sessionId, provider) up to its await of client.critique, or to
\* its throw.
BeginGetCritique(provider) ==
    LET o == [OrchIdle EXCEPT !.op = "getCritique", !.provider = provider]
    IN  IF ~store.exists \/ ~store.hasCurrentPlan
        THEN [orch |-> [o EXCEPT !.pc = "done",
                                 !.out = ErrorResult("Session or current plan not found")],
              store |-> store,
              client |-> client]
        ELSE LET o1 == [o EXCEPT !.loaded = store, !.session = store]
             IN  IF HasClient(provider)
                 THEN [orch |-> [o1 EXCEPT !.pc = "critique",
                                           !.calls[provider] = @ + 1],
                       store |-> store,
                       client |-> BeginCall(provider, "critique", "",
                                            o1.session.currentPlan)]
                 ELSE [orch |-> [o1 EXCEPT !.pc = "done",
                                           !.out = ErrorResult(ClientNotAvailable(provider))],
                       store |-> store,
                       client |-> client]

\* getCritique after client.critique settled: the two messages, the metadata,
\* the save and the return; or the catch block's rethrow.
AfterCritique(o, r) ==
    IF r.kind = "text"
    THEN LET session == [o.session EXCEPT
                            !.conversation =
                                @ \o << Message("user", "Request expert critique of current plan"),
                                        Message("assistant", "Expert critique: " \o r.msg) >>,
                            !.totalInteractions = @ + 1]
         IN  [orch |-> [o EXCEPT !.pc = "done", !.session = session,
                                 !.out = TextResult(r.msg)],
              store |-> session,
              client |-> client]
    ELSE [orch |-> [o EXCEPT !.pc = "done", !.out = ErrorResult(r.msg)],
          store |-> store,
          client |-> client]

\* A caller of the orchestrator invokes generatePlan.
OrchGeneratePlan(userPrompt, provider) ==
    /\ orch.pc \in {"idle", "done"}
    /\ cmd.pc \in {"idle", "done"}
    /\ Len(store.conversation) < 2 * MaxOps
    /\ LET next == BeginGeneratePlan(userPrompt, provider)
       IN  /\ orch' = next.orch
           /\ store' = next.store
           /\ client' = next.client
    /\ UNCHANGED <<apiKey, planner, retryConfig, providers, cmd, other, san, chat, cli, stamp>>

\* A caller of the orchestrator invokes refinePlan.
OrchRefinePlan(feedback, provider) ==
    /\ orch.pc \in {"idle", "done"}
    /\ cmd.pc \in {"idle", "done"}
    /\ Len(store.conversation) < 2 * MaxOps
    /\ LET next == BeginRefinePlan(feedback, provider)
       IN  /\ orch' = next.orch
           /\ store' = next.store
           /\ client' = next.client
    /\ UNCHANGED <<apiKey, planner, retryConfig, providers, cmd, other, san, chat, cli, stamp>>

\* A caller of the orchestrator invokes getCritique.
OrchGetCritique(provider) ==
    /\ orch.pc \in {"idle", "done"}
    /\ cmd.pc \in {"idle", "done"}
    /\ Len(store.conversation) < 2 * MaxOps
    /\ LET next == BeginGetCritique(provider)
       IN  /\ orch' = next.orch
           /\ store' = next.store
           /\ client' = next.client
    /\ UNCHANGED <<apiKey, planner, retryConfig, providers, cmd, other, san, chat, cli, stamp>>

\* The awaited client.critique settles: getCritique runs to its return or its
\* throw.
OrchCritiqueReturns ==
    /\ orch.pc = "critique"
    /\ client.pc = "done"
    /\ LET next == AfterCritique(orch, client.out)
       IN  /\ orch' = next.orch
           /\ store' = next.store
           /\ client' = next.client
    /\ UNCHANGED <<apiKey, planner, retryConfig, providers, cmd, other, san, chat, cli, stamp>>

\* Mutant of PrimaryFailed: the fallback is tried whatever the primary gave.
PrimaryFailedOrNot(r) == r.kind \in {"plan", "error"}

\* !plan (!refinedPlan) after the try/catch around the primary provider's call
PrimaryFailed(r) == r.kind # "plan"

\* The awaited client.generatePlan / client.refinePlan settles: the operation
\* continues to its next await, its return or its throw.
OrchClientReturns ==
    /\ orch.pc \in {"primary", "fallback"}
    /\ client.pc = "done"
    /\ LET r == client.out
           o == IF orch.pc = "primary"
                THEN [orch EXCEPT !.primary = CallSummary(client)]
                ELSE orch
           next == IF orch.pc = "primary" /\ PrimaryFailed(r)
                   THEN AfterPrimaryFailure([o EXCEPT !.lastError = r.msg])
                   ELSE IF r.kind = "plan" THEN OpSuccess(o, r.plan)
                   ELSE OpFailure(o)
       IN  /\ orch' = next.orch
           /\ store' = next.store
           /\ client' = next.client
    /\ UNCHANGED <<apiKey, planner, retryConfig, providers, cmd, other, san, chat, cli, stamp>>

(***************************************************************************)
(* The plan command: layr-recreated/src/cli/commands/plan.ts               *)
(***************************************************************************)

\* What the user types as the task description and as refinement feedback.
TaskDescriptions == {"", "Build a REST API"}

CmdFeedbacks == {"", "Add tests"}

\* The numbers the user answers a provider question with (3 is out of range).
ProviderChoices == 1..3

\* The numbers the user answers the options menu with (5 is no option).
MenuChoices == 1..5

\* orchestrator.availableProviders as the array the getter builds
AvailableList ==
    (IF "mistral" \in providers THEN <<"mistral">> ELSE <<>>)
    \o (IF "deepseek" \in providers THEN <<"deepseek">> ELSE <<>>)

\* The provider a variable initialised to `initial` holds after the
\* `if (availableProviders.length > 1) { ... questionInt ... }` block.
ChosenProvider(initial, choice) ==
    IF Len(AvailableList) > 1 /\ choice >= 1 /\ choice <= Len(AvailableList)
    THEN AvailableList[choice]
    ELSE initial

\* createMockPlan(prompt) (src/cli/commands/init.ts)
MockTasks ==
    << Task("task_now_r1", "Initial Research and Planning", <<>>),
       Task("task_now_r2", "Core Implementation", <<>>),
       Task("task_now_r3", "Testing and Quality Assurance", <<>>),
       Task("task_now_r4", "Documentation and Review", <<>>) >>

createMockPlan(prompt) ==
    ClientPlan("plan_now_mock", "Mock Plan: " \o prompt \o "...",
               "This is a fallback plan created when AI services are unavailable. Please review and customize according to your needs.",
               MockTasks, "now")

\* session is the object planCommand got from getSession at its start; plan
\* is the command's local variable.
CmdIdle ==
    [pc |-> "idle", task |-> "", provider |-> "none", session |-> NoSession,
     hasPlan |-> FALSE, plan |-> NoPlan]

\* Mutant of WithMockPlan: the mock plan is pushed onto plans but not made
\* the current plan.
WithMockPlanNotCurrent(session, plan) ==
    [session EXCEPT !.plans = Append(@, plan)]

\* session.currentPlan = plan; session.plans.push(plan)
WithMockPlan(session, plan) ==
    [session EXCEPT !.hasCurrentPlan = TRUE, !.currentPlan = plan,
                    !.plans = Append(@, plan)]

\* `if (session.currentPlan) { plan = session.currentPlan; ... }` after the
\* command's refinePlan helper has returned
AfterRefineHelper(c) ==
    IF c.session.hasCurrentPlan
    THEN [c EXCEPT !.pc = "menu", !.hasPlan = TRUE, !.plan = c.session.currentPlan]
    ELSE [c EXCEPT !.pc = "menu"]

\* planCommand from its start to its first await that suspends: the early
\* returns, the mock plan saved when no provider is configured, or the call
\* of orchestrator.generatePlan.
CmdPlan(taskDescription, choice) ==
    /\ cmd.pc \in {"idle", "done"}
    /\ orch.pc \in {"idle", "done"}
    /\ Len(store.conversation) < 2 * MaxOps
    /\ Len(store.plans) < MaxOps
    /\ LET c == [CmdIdle EXCEPT !.task = taskDescription, !.session = store]
       IN  IF ~store.exists \/ taskDescription = ""
           THEN /\ cmd' = [c EXCEPT !.pc = "done"]
                /\ UNCHANGED <<orch, store, client>>
           ELSE IF Len(AvailableList) = 0
           THEN LET plan == createMockPlan(taskDescription)
                    session == WithMockPlan(c.session, plan)
                IN  /\ cmd' = [c EXCEPT !.pc = "menu", !.session = session,
                                        !.hasPlan = TRUE, !.plan = plan]
                    /\ store' = session
                    /\ UNCHANGED <<orch, client>>
           ELSE LET provider == ChosenProvider("mistral", choice)
                    next == BeginGeneratePlan(taskDescription, provider)
                IN  /\ cmd' = [c EXCEPT !.pc = "generating", !.provider = provider]
                    /\ orch' = next.orch
                    /\ store' = next.store
                    /\ client' = next.client
    /\ UNCHANGED <<apiKey, planner, retryConfig, providers, other, san, chat, cli, stamp>>

\* The awaited orchestrator.generatePlan settles: the plan is displayed and
\* the options menu shown, or the catch block asks about a mock plan.
CmdGenerateReturns ==
    /\ cmd.pc = "generating"
    /\ orch.pc = "done"
    /\ cmd' = IF orch.out.kind = "plan"
              THEN [cmd EXCEPT !.pc = "menu", !.hasPlan = TRUE, !.plan = orch.out.plan]
              ELSE [cmd EXCEPT !.pc = "askFallback"]
    /\ UNCHANGED <<apiKey, planner, retryConfig, client, providers, orch, store, other, san, chat, cli, stamp>>

\* The user answers 'Would you like to use a mock plan instead?': on yes the
\* mock plan is put into the session object of the command, which is saved.
CmdFallback(useFallback) ==
    /\ cmd.pc = "askFallback"
    /\ IF useFallback
       THEN LET plan == createMockPlan(cmd.task)
                session == WithMockPlan(cmd.session, plan)
            IN  /\ cmd' = [cmd EXCEPT !.pc = "done", !.session = session,
                                      !.hasPlan = TRUE, !.plan = plan]
                /\ store' = session
       ELSE /\ cmd' = [cmd EXCEPT !.pc = "done"]
            /\ UNCHANGED store
    /\ UNCHANGED <<apiKey, planner, retryConfig, client, providers, orch, other, san, chat, cli, stamp>>

\* The user picks an option of the menu: refine (1), critique (2), accept (3)
\* or exit (4); up to the await of the orchestrator's operation or to the
\* next display of the menu.
CmdMenu(option, feedback, choice) ==
    /\ cmd.pc = "menu"
    /\ LET provider == ChosenProvider(IF Len(AvailableList) = 0 THEN "none"
                                      ELSE AvailableList[1], choice)
       IN  IF option = 1 /\ feedback # "" /\ Len(AvailableList) > 0
           THEN /\ Len(store.conversation) < 2 * MaxOps
                /\ LET next == BeginRefinePlan(feedback, provider)
                   IN  /\ cmd' = [cmd EXCEPT !.pc = "refining", !.provider = provider]
                       /\ orch' = next.orch
                       /\ store' = next.store
                       /\ client' = next.client
           ELSE IF option = 1
           THEN /\ cmd' = AfterRefineHelper(cmd)
                /\ UNCHANGED <<orch, store, client>>
           ELSE IF option = 2 /\ Len(AvailableList) > 0
           THEN /\ Len(store.conversation) < 2 * MaxOps
                /\ LET next == BeginGetCritique(provider)
                   IN  /\ cmd' = [cmd EXCEPT !.pc = "critiquing", !.provider = provider]
                       /\ orch' = next.orch
                       /\ store' = next.store
                       /\ client' = next.client
           ELSE IF option = 2
           THEN UNCHANGED <<cmd, orch, store, client>>
           ELSE IF option \in {3, 4}
           THEN /\ cmd' = [cmd EXCEPT !.pc = "done"]
                /\ UNCHANGED <<orch, store, client>>
           ELSE UNCHANGED <<cmd, orch, store, client>>
    /\ UNCHANGED <<apiKey, planner, retryConfig, providers, other, san, chat, cli, stamp>>

\* The awaited orchestrator.refinePlan / getCritique settles (an error is
\* caught and displayed by the helper): back to the menu.
CmdHelperReturns ==
    /\ cmd.pc \in {"refining", "critiquing"}
    /\ orch.pc = "done"
    /\ cmd' = IF cmd.pc = "refining" THEN AfterRefineHelper(cmd)
              ELSE [cmd EXCEPT !.pc = "menu"]
    /\ UNCHANGED <<apiKey, planner, retryConfig, client, providers, orch, store, other, san, chat, cli, stamp>>

(***************************************************************************)
(* parseAndValidatePlan, character by character                            *)
(* (layr-recreated/src/llm/mistral.ts; DeepSeekClient has the same code)   *)
(***************************************************************************)

\* A text is a sequence of symbols.  A symbol is one character where the
\* code's patterns look at characters ({ } ` \ n t, white space, control
\* characters) and may be a run of other characters where they do not
\* ("json", "\"title\":", a word of prose).  "LF" is the line feed, a white
\* space and a control character, " " is the space; the backslash and the
\* backtick go by their names.

\* Longest string body (in symbols) of the titles tried.
MaxBody == 2

\* Largest number of tasks in the objects tried.
MaxTasks == 2

Quote == "\""

Backslash == "BACKSLASH"

Backtick == "BACKTICK"

\* \s of the regular expressions and the white space of trim() and JSON
IsSpace(c) == c \in {" ", "LF", "TAB", "CR"}

\* [\x00-\x1F\x7F]
IsControl(c) == c \in {"LF", "TAB", "CR"}

Fence == <<Backtick, Backtick, Backtick>>

\* String.prototype.startsWith
startsWith(s, prefix) ==
    Len(s) >= Len(prefix) /\ SubSeq(s, 1, Len(prefix)) = prefix

RECURSIVE DropSpaces(_)
\* what is left of s after a leading \s*
DropSpaces(s) ==
    IF s # <<>> /\ IsSpace(s[1]) THEN DropSpaces(Tail(s)) ELSE s

\* the position of the last symbol of s that is no white space, 0 if none
LastNonSpace(s) ==
    LET I == {i \in DOMAIN s : ~IsSpace(s[i])}
    IN  IF I = {} THEN 0 ELSE CHOOSE i \in I : \A j \in I : j <= i

\* String.prototype.trim
trim(s) == DropSpaces(SubSeq(s, 1, LastNonSpace(s)))

\* s.replace(/\s*```$/, ''): the fence at the very end goes, with the white
\* space before it.
RemoveClosingFence(s) ==
    LET n == Len(s)
    IN  IF n >= 3 /\ SubSeq(s, n - 2, n) = Fence
        THEN SubSeq(s, 1, LastNonSpace(SubSeq(s, 1, n - 3)))
        ELSE s

\* The two branches that remove markdown code block formatting.
RemoveFences(s) ==
    IF startsWith(s, Fence \o <<"json">>)
    THEN RemoveClosingFence(DropSpaces(SubSeq(s, 5, Len(s))))
    ELSE IF startsWith(s, Fence)
    THEN RemoveClosingFence(DropSpaces(SubSeq(s, 4, Len(s))))
    ELSE s

\* s.match(/\{[\s\S]*?\}(?=\s*$)/): from the first { to the first } after
\* which only white space follows; that } is the last symbol of s that is no
\* white space.  <<>> stands for null (a match is never empty).
MatchObject(s) ==
    LET last == LastNonSpace(s)
        Open == {i \in DOMAIN s : s[i] = "{" /\ i < last}
    IN  IF Open # {} /\ s[last] = "}"
        THEN SubSeq(s, CHOOSE i \in Open : \A j \in Open : i <= j, last)
        ELSE <<>>

\* if (jsonMatch) { jsonContent = jsonMatch[0]; }
Candidate(s) == IF MatchObject(s) # <<>> THEN MatchObject(s) ELSE s

\* s.replace(/[\x00-\x1F\x7F]/g, '')
RemoveControl(s) == SelectSeq(s, LAMBDA c : ~IsControl(c))

RECURSIVE ReplaceAll(_, _, _)
\* s.replace(/pattern/g, replacement) for a pattern that is a fixed text
ReplaceAll(s, pattern, replacement) ==
    IF Len(s) < Len(pattern) THEN s
    ELSE IF startsWith(s, pattern)
    THEN replacement \o ReplaceAll(SubSeq(s, Len(pattern) + 1, Len(s)), pattern, replacement)
    ELSE <<s[1]>> \o ReplaceAll(Tail(s), pattern, replacement)

\* The clean-up chain; what it returns is handed to JSON.parse.
CleanUp(s) ==
    ReplaceAll(
        ReplaceAll(
            ReplaceAll(
                ReplaceAll(RemoveControl(s),
                           <<Backslash, "n">>, <<Backslash, "n">>),
                <<Backslash, "r">>, <<Backslash, "r">>),
            <<Backslash, "t">>, <<Backslash, "t">>),
        <<Backslash, Backslash>>, <<Backslash>>)

\* What JSON.parse makes of the character after a backslash in a string
\* (of the escapes of JSON those over the symbols of the model).
Unescaped(c) ==
    CASE c = "n" -> "LF"
      [] c = "t" -> "TAB"
      [] c = "r" -> "CR"
      [] OTHER -> c

JsonEscapes == {"n", "t", "r", Backslash, Quote}

SyntaxError == [ok |-> FALSE, value |-> <<>>, rest |-> <<>>]

RECURSIVE JsonStringBody(_, _)
\* JSON.parse inside a string, after the opening quote
JsonStringBody(s, acc) ==
    IF s = <<>> THEN SyntaxError
    ELSE IF s[1] = Quote THEN [ok |-> TRUE, value |-> acc, rest |-> Tail(s)]
    ELSE IF s[1] = Backslash
    THEN IF Len(s) >= 2 /\ s[2] \in JsonEscapes
         THEN JsonStringBody(SubSeq(s, 3, Len(s)), Append(acc, Unescaped(s[2])))
         ELSE SyntaxError
    ELSE IF IsControl(s[1]) THEN SyntaxError
    ELSE JsonStringBody(Tail(s), Append(acc, s[1]))

JsonString(s) ==
    LET t == DropSpaces(s)
    IN  IF t # <<>> /\ t[1] = Quote THEN JsonStringBody(Tail(t), <<>>) ELSE SyntaxError

\* the symbol expected next, after white space
Expect(r, symbol) ==
    LET t == DropSpaces(r.rest)
    IN  IF r.ok /\ t # <<>> /\ t[1] = symbol
        THEN [r EXCEPT !.rest = Tail(t)]
        ELSE SyntaxError

\* "key": string
JsonMember(r, key) ==
    LET k == Expect(r, key)
        v == JsonString(k.rest)
    IN  IF k.ok /\ v.ok THEN v ELSE SyntaxError

\* { "title": string }
JsonTask(r) ==
    LET v == JsonMember(Expect(r, "{"), "\"title\":")
        c == Expect(v, "}")
    IN  IF c.ok THEN [c EXCEPT !.value = [title |-> v.value]] ELSE SyntaxError

RECURSIVE JsonTasks(_, _)
\* the elements of the tasks array, after the [ or a comma
JsonTasks(r, acc) ==
    LET t == JsonTask(r)
        comma == Expect(t, ",")
        close == Expect(t, "]")
    IN  IF ~t.ok THEN SyntaxError
        ELSE IF comma.ok THEN JsonTasks(comma, Append(acc, t.value))
        ELSE IF close.ok THEN [close EXCEPT !.value = Append(acc, t.value)]
        ELSE SyntaxError

JsonArray(r) ==
    LET open == Expect(r, "[")
        empty == Expect(open, "]")
    IN  IF ~open.ok THEN SyntaxError
        ELSE IF empty.ok THEN [empty EXCEPT !.value = <<>>]
        ELSE JsonTasks(open, <<>>)

NotParsed == [ok |-> FALSE, title |-> <<>>, description |-> <<>>, tasks |-> <<>>]

\* JSON.parse on the texts of the model: an object with the members title,
\* description (strings) and tasks (an array of objects with a title), and
\* white space around it; a SyntaxError for anything before the { or after
\* the }.
JsonParse(s) ==
    LET title == JsonMember(Expect([SyntaxError EXCEPT !.ok = TRUE, !.rest = s], "{"),
                            "\"title\":")
        description == JsonMember(Expect(title, ","), "\"description\":")
        tasks == JsonArray(Expect(Expect(description, ","), "\"tasks\":"))
        close == Expect(tasks, "}")
    IN  IF close.ok /\ DropSpaces(close.rest) = <<>>
        THEN [ok |-> TRUE, title |-> title.value, description |-> description.value,
              tasks |-> tasks.value]
        ELSE NotParsed

\* !parsed.title || !parsed.description || !Array.isArray(parsed.tasks)
ValidStructure(parsed) ==
    parsed.ok /\ parsed.title # <<>> /\ parsed.description # <<>>

\* The model outputs tried: a plan object, compact or laid out on lines, in
\* one of the wrappings below.
BodySymbols == {"x", "n", Backslash, "}"}

Bodies == UNION {[1..n -> BodySymbols] : n \in 0..MaxBody}

Descriptions == {<<"y">>, <<"a", Backslash, "n", "b">>}

Layouts == {<<>>, <<"LF", " ">>}

String(body) == <<Quote>> \o body \o <<Quote>>

RECURSIVE TaskTexts(_, _)
TaskTexts(n, sep) ==
    IF n = 0 THEN <<>>
    ELSE (IF n = 1 THEN <<>> ELSE TaskTexts(n - 1, sep) \o <<",">> \o sep)
         \o <<"{", "\"title\":">> \o String(<<"task", ToString(n)>>) \o <<"}">>

ObjectText(title, description, n, sep) ==
    <<"{">> \o sep \o <<"\"title\":">> \o String(title) \o <<",">> \o sep
    \o <<"\"description\":">> \o String(description) \o <<",">> \o sep
    \o <<"\"tasks\":", "[">> \o TaskTexts(n, sep) \o <<"]">> \o sep \o <<"}">>

Wrapping(kind, pre, open, close, post) ==
    [kind |-> kind, pre |-> pre, open |-> open, close |-> close, post |-> post]

Wrappings ==
    { Wrapping("none", <<>>, <<>>, <<>>, <<>>),
      Wrapping("json fence", <<>>, Fence \o <<"json", "LF">>, <<"LF">> \o Fence, <<>>),
      Wrapping("json fence", <<"LF">>, Fence \o <<"json">>, Fence, <<" ", "LF">>),
      Wrapping("fence", <<>>, Fence \o <<"LF">>, <<"LF">> \o Fence, <<>>),
      Wrapping("preamble", <<"Here is the plan:", "LF">>, <<>>, <<>>, <<>>),
      Wrapping("preamble", <<"Fill in the", " ", "{", "name", "}", " ", "below:", "LF">>,
               <<>>, <<>>, <<>>),
      Wrapping("postamble", <<>>, <<>>, <<>>, <<"LF", "Let me know if it helps.">>),
      Wrapping("both", <<"Here is the plan:", "LF">>, <<>>, <<>>,
               <<"LF", "Let me know if it helps.">>) }

SanIdle ==
    [pc |-> "idle", kind |-> "none", object |-> <<>>, content |-> <<>>,
     stripped |-> <<>>, matched |-> FALSE, candidate |-> <<>>, cleaned |-> <<>>,
     parsed |-> NotParsed, valid |-> FALSE]

\* parseAndValidatePlan is called with a model output and runs up to the
\* validation of the required fields; the value of jsonContent after each
\* step is kept.  (A call depends on nothing but its argument, so one call
\* per behaviour is followed.)
ParseAndValidate(title, description, n, sep, w) ==
    /\ san.pc = "idle"
    /\ \E object \in {ObjectText(title, description, n, sep)} :
       \E content \in {w.pre \o w.open \o object \o w.close \o w.post} :
       \E stripped \in {RemoveFences(trim(content))} :
       \E candidate \in {Candidate(stripped)} :
       \E cleaned \in {CleanUp(candidate)} :
       \E parsed \in {JsonParse(cleaned)} :
           san' = [pc |-> "done", kind |-> w.kind, object |-> object,
                   content |-> content, stripped |-> stripped,
                   matched |-> MatchObject(stripped) # <<>>,
                   candidate |-> candidate, cleaned |-> cleaned,
                   parsed |-> parsed, valid |-> ValidStructure(parsed)]
    /\ UNCHANGED <<apiKey, planner, retryConfig, client, providers, orch, store, cmd, other, chat, cli, stamp>>

(***************************************************************************)
(* LLMClient.chat: src/llmClient.ts                                        *)
(***************************************************************************)

\* The file holds the class twice; the copies differ in maxAttempts, in the
\* initial delay and in the text of the final error.
ChatCopies ==
    { [maxAttempts |-> 5, delay |-> 1000,
       error |-> "Too many requests, please try again later."],
      [maxAttempts |-> 3, delay |-> 5000,
       error |-> "Rate limit exceeded. Please wait a few minutes and try again."] }

\* The messages chat is called with.
ChatMessages == {"Build a REST API", "Write documentation"}

\* The statuses a failed request has.
ChatStatuses == {429, 401, 400, 500, 503}

\* res.choices[0].message.content
ChatContents == {"", "not json", "{plan}"}

\* What chat returns or throws; status is 0 for an Error made by chat itself.
ChatReturn(content) == [kind |-> "content", msg |-> content, status |-> 0]

ChatError(msg) == [kind |-> "error", msg |-> msg, status |-> 0]

\* The error of the OpenAI client for a response with a status.
ApiError(status) == [kind |-> "error", msg |-> "Request failed", status |-> status]

NoReturn == [kind |-> "none", msg |-> "", status |-> 0]

\* sleeps holds the delays waited, failures the statuses of the failed
\* requests of this call, in order.
ChatIdle ==
    [pc |-> "idle", copy |-> [maxAttempts |-> 0, delay |-> 0, error |-> ""],
     messages |-> "", attempt |-> 0, delay |-> 0, requests |-> 0,
     sleeps |-> <<>>, failures |-> <<>>, out |-> NoReturn]

\* Mutant of IsRateLimit: server errors are retried as well.
IsRateLimitOrServerError(status) == status = 429 \/ status >= 500

\* err.status === 429
IsRateLimit(status) == status = 429

\* Mutant of NextDelay: the delay stays what it was.
NextDelayUnchanged(delay) == delay

\* delay *= 2
NextDelay(delay) == delay * 2

\* chat is called: init() when there is no client yet, then the first request.
ChatCall(copy, messages) ==
    /\ chat.pc = "idle"
    /\ chat' = IF ~apiKey
               THEN [ChatIdle EXCEPT !.pc = "done", !.copy = copy, !.messages = messages,
                                     !.out = ChatError("API key not found")]
               ELSE [ChatIdle EXCEPT !.pc = "request", !.copy = copy,
                                     !.messages = messages, !.delay = copy.delay,
                                     !.requests = 1]
    /\ UNCHANGED <<apiKey, planner, retryConfig, client, providers, orch, store, cmd, other, san, cli, stamp>>

\* The request succeeds: the content is returned.
ChatRequestSucceeds(content) ==
    /\ chat.pc = "request"
    /\ chat' = [chat EXCEPT !.pc = "done", !.out = ChatReturn(content)]
    /\ UNCHANGED <<apiKey, planner, retryConfig, client, providers, orch, store, cmd, other, san, cli, stamp>>

\* The request fails: the catch block up to its await or its throw.
ChatRequestFails(status) ==
    /\ chat.pc = "request"
    /\ chat' = IF IsRateLimit(status)
               THEN [chat EXCEPT !.pc = "sleeping", !.failures = Append(@, status),
                                 !.sleeps = Append(@, chat.delay)]
               ELSE IF status = 401
               THEN [chat EXCEPT !.pc = "done", !.failures = Append(@, status),
                                 !.out = ChatError("Unauthorized: Invalid API key")]
               ELSE [chat EXCEPT !.pc = "done", !.failures = Append(@, status),
                                 !.out = ApiError(status)]
    /\ UNCHANGED <<apiKey, planner, retryConfig, client, providers, orch, store, cmd, other, san, cli, stamp>>

\* The timer fires: delay *= 2, attempt++, then the next request or, when
\* the loop condition fails, the final error.
ChatWakes ==
    /\ chat.pc = "sleeping"
    /\ chat' = IF chat.attempt + 1 < chat.copy.maxAttempts
               THEN [chat EXCEPT !.pc = "request", !.delay = NextDelay(@),
                                 !.attempt = @ + 1, !.requests = @ + 1]
               ELSE [chat EXCEPT !.pc = "done", !.delay = NextDelay(@),
                                 !.attempt = @ + 1, !.out = ChatError(chat.copy.error)]
    /\ UNCHANGED <<apiKey, planner, retryConfig, client, providers, orch, store, cmd, other, san, cli, stamp>>

(***************************************************************************)
(* The layr program: src/cli.ts                                            *)
(***************************************************************************)

\* The module's `let currentPlan: Plan | null = null`, as a process that
\* has just been started has it.
NewProcess == [hasCurrentPlan |-> FALSE, currentPlan |-> NoPlan]

NoPlanLoaded == "No plan loaded. Run \"layr plan <goal>\" first."

\* The file names given to export (none, a JSON file, a markdown file).
ExportFiles == {"", "plan.json", "plan.md"}

\* command, arg: what process.argv asked for; process: the module variables
\* of that process; out: what it printed last; planned, lastPlan: whether an
\* earlier `plan <goal>` invocation completed, and the plan it printed.
CliIdle ==
    [pc |-> "none", command |-> "", arg |-> "", process |-> NewProcess, out |-> "",
     planned |-> FALSE, lastPlan |-> NoPlan]

\* The program is started; program.parseAsync(process.argv) dispatches to the
\* action of the command.
Started(command, arg) ==
    [cli EXCEPT !.pc = "running", !.command = command, !.arg = arg,
                !.process = NewProcess, !.out = ""]

\* The action of `show`
ShowOutput(process) ==
    IF ~process.hasCurrentPlan THEN NoPlanLoaded
    ELSE "Plan: " \o process.currentPlan.title

\* The action of `run <stepId>`
RunOutput(process, stepId) ==
    IF ~process.hasCurrentPlan THEN NoPlanLoaded
    ELSE IF \A i \in DOMAIN process.currentPlan.steps :
                process.currentPlan.steps[i].id # stepId
    THEN "Step not found."
    ELSE "Filename: generated"

\* The action of `export [file]`
ExportOutput(process, file) ==
    IF ~process.hasCurrentPlan THEN NoPlanLoaded
    ELSE "Plan exported to plans/"
         \o (IF file = "" THEN process.currentPlan.title \o ".json" ELSE file)

\* `layr plan <goal>`: a process starts and awaits generatePlan(goal).
CliPlan(goal) ==
    /\ cli.pc \in {"none", "exited"}
    /\ planner.pc \in {"idle", "done"}
    /\ cli' = [Started("plan", goal) EXCEPT !.pc = "planning"]
    /\ planner' = BeginPlannerGeneratePlan(goal)
    /\ UNCHANGED <<apiKey, retryConfig, client, providers, orch, store, cmd, other, san, chat, stamp>>

\* generatePlan settles: the plan is assigned to currentPlan and printed, or
\* the rejection ends the action; the process exits.
CliPlanSettles ==
    /\ cli.pc = "planning"
    /\ planner.pc = "done"
    /\ cli' = IF planner.out.kind = "plan"
              THEN [cli EXCEPT !.pc = "exited",
                               !.process = [hasCurrentPlan |-> TRUE,
                                            currentPlan |-> planner.out.plan],
                               !.out = "Plan: " \o planner.out.plan.title,
                               !.planned = TRUE,
                               !.lastPlan = planner.out.plan]
              ELSE [cli EXCEPT !.pc = "exited", !.out = planner.out.msg]
    /\ UNCHANGED <<apiKey, planner, retryConfig, client, providers, orch, store, cmd, other, san, chat, stamp>>

\* `layr show`
CliShow ==
    /\ cli.pc \in {"none", "exited"}
    /\ LET c == Started("show", "")
       IN  cli' = [c EXCEPT !.pc = "exited", !.out = ShowOutput(c.process)]
    /\ UNCHANGED <<apiKey, planner, retryConfig, client, providers, orch, store, cmd, other, san, chat, stamp>>

\* `layr run <stepId>`
CliRun(stepId) ==
    /\ cli.pc \in {"none", "exited"}
    /\ LET c == Started("run", ToString(stepId))
       IN  cli' = [c EXCEPT !.pc = "exited", !.out = RunOutput(c.process, stepId)]
    /\ UNCHANGED <<apiKey, planner, retryConfig, client, providers, orch, store, cmd, other, san, chat, stamp>>

\* `layr export [file]`
CliExport(file) ==
    /\ cli.pc \in {"none", "exited"}
    /\ LET c == Started("export", file)
       IN  cli' = [c EXCEPT !.pc = "exited", !.out = ExportOutput(c.process, file)]
    /\ UNCHANGED <<apiKey, planner, retryConfig, client, providers, orch, store, cmd, other, san, chat, stamp>>

(***************************************************************************)
(* Two invocations on one session file                                     *)
(***************************************************************************)

\* Each invocation is a process with a LayerOrchestrator and provider clients
\* of its own; the session file is what they share.  orch and client are the
\* process that takes the next step, other holds the process that waits.
OtherIdle == [orch |-> OrchIdle, client |-> ClientIdle]

\* The scheduler runs the other process: between two steps of a process (its
\* awaits) the other one may take any number of steps.
SwitchProcess ==
    /\ cmd.pc = "idle"
    /\ other' = [orch |-> orch, client |-> client]
    /\ orch' = other.orch
    /\ client' = other.client
    /\ UNCHANGED <<apiKey, planner, retryConfig, providers, store, cmd, san, chat, cli, stamp>>

(***************************************************************************)
(* Specifications                                                          *)
(***************************************************************************)

\* The planner alone: generatePlan and refinePlan of src/unnamed/part_002.
InitPlanner ==
    /\ apiKey \in BOOLEAN
    /\ planner = PlannerIdle
    /\ retryConfig = DefaultRetryConfig
    /\ client = ClientIdle
    /\ providers = {}
    /\ orch = OrchIdle
    /\ store = NoSession
    /\ stamp = StampIdle
    /\ cli = CliIdle
    /\ chat = ChatIdle
    /\ san = SanIdle
    /\ other = OtherIdle
    /\ cmd = CmdIdle

NextPlanner ==
    \/ \E goal \in Goals : PlannerGeneratePlan(goal)
    \/ \E plan \in RefineInputs, instruction \in Goals : PlannerRefinePlan(plan, instruction)
    \/ PlannerChatReturns
    \/ \E err \in ChatErrors : PlannerChatThrows(err)

SpecPlanner == InitPlanner /\ [][NextPlanner]_vars

\* The planner's validation of the plans with distinct IDs and dependencies
\* on their own steps.
InitValidator ==
    /\ apiKey = TRUE
    /\ planner = PlannerIdle
    /\ retryConfig = DefaultRetryConfig
    /\ client = ClientIdle
    /\ providers = {}
    /\ orch = OrchIdle
    /\ store = NoSession
    /\ stamp = StampIdle
    /\ cli = CliIdle
    /\ chat = ChatIdle
    /\ san = SanIdle
    /\ other = OtherIdle
    /\ cmd = CmdIdle

NextValidator ==
    \/ \E goal \in Goals : PlannerGeneratePlan(goal)
    \/ \E plan \in RefineInputs, instruction \in Goals : PlannerRefinePlan(plan, instruction)
    \/ PlannerChatReturnsClosedPlan

SpecValidator == InitValidator /\ [][NextValidator]_vars

\* A provider client called directly, with the retry configuration of its
\* constructor.
InitClient ==
    /\ apiKey = FALSE
    /\ planner = PlannerIdle
    /\ retryConfig = DefaultRetryConfig
    /\ client = ClientIdle
    /\ providers = {}
    /\ orch = OrchIdle
    /\ store = NoSession
    /\ stamp = StampIdle
    /\ cli = CliIdle
    /\ chat = ChatIdle
    /\ san = SanIdle
    /\ other = OtherIdle
    /\ cmd = CmdIdle

NextClient ==
    \/ \E p \in Providers, prompt \in Goals : ClientCall(p, "generatePlan", prompt, NoPlan)
    \/ \E p \in Providers, plan \in ClientInputPlans, feedback \in Goals :
           ClientCall(p, "refinePlan", feedback, plan)
    \/ \E p \in Providers, plan \in ClientInputPlans : ClientCall(p, "critique", "", plan)
    \/ \E status \in HttpStatuses : ClientHttpFails(status)
    \/ ClientWakes
    \/ \E content \in Contents : ClientHttpSucceeds(content)

SpecClient == InitClient /\ [][NextClient]_vars

\* The retry computation of makeRequest over a family of RetryConfig values.
InitRetryPolicy ==
    /\ apiKey = FALSE
    /\ planner = PlannerIdle
    /\ retryConfig \in RetryConfigs
    /\ client = ClientIdle
    /\ providers = {}
    /\ orch = OrchIdle
    /\ store = NoSession
    /\ stamp = StampIdle
    /\ cli = CliIdle
    /\ chat = ChatIdle
    /\ san = SanIdle
    /\ other = OtherIdle
    /\ cmd = CmdIdle

NextRetryPolicy ==
    \/ \E p \in Providers : ClientCall(p, "generatePlan", "Build a REST API", NoPlan)
    \/ \E status \in HttpStatuses : ClientHttpFails(status)
    \/ ClientWakes
    \/ \E content \in Contents : ClientHttpSucceeds(content)

SpecRetryPolicy == InitRetryPolicy /\ [][NextRetryPolicy]_vars

\* The request outcomes tried under the orchestrator: one status of each way
\* the catch block of makeRequest goes, and one content of each way the
\* operation's try block goes.
OrchHttpStatuses == {429, 503, 404, 500}

OrchContents == {"", "not json", "{plan}", "{plan: A; B after 'A'}"}

\* The request outcomes tried under the plan command: a failure that is
\* retried and one that is not, a response without a plan and one with a
\* plan.
CommandHttpStatuses == {503, 404}

CommandContents == {"", "{plan}"}

\* The orchestrator with the provider clients it constructed.
InitOrch ==
    /\ apiKey = FALSE
    /\ planner = PlannerIdle
    /\ retryConfig = DefaultRetryConfig
    /\ client = ClientIdle
    /\ providers \in SUBSET Providers
    /\ orch = OrchIdle
    /\ store = NoSession
    /\ stamp = StampIdle
    /\ cli = CliIdle
    /\ chat = ChatIdle
    /\ san = SanIdle
    /\ other = OtherIdle
    /\ cmd = CmdIdle

NextOrch ==
    \/ OrchCreateSession
    \/ \E prompt \in OrchPrompts, p \in Providers : OrchGeneratePlan(prompt, p)
    \/ \E feedback \in OrchFeedbacks, p \in Providers : OrchRefinePlan(feedback, p)
    \/ \E p \in Providers : OrchGetCritique(p)
    \/ OrchCritiqueReturns
    \/ OrchClientReturns
    \/ \E status \in OrchHttpStatuses : ClientHttpFails(status)
    \/ ClientWakes
    \/ \E content \in OrchContents : ClientHttpSucceeds(content)

SpecOrch == InitOrch /\ [][NextOrch]_vars

\* The orchestrator where every HTTP request settles, every sleep's timer
\* fires and every settled promise's continuation runs.
SpecOrchFair ==
    /\ InitOrch
    /\ [][NextOrch]_vars
    /\ WF_vars((\E status \in OrchHttpStatuses : ClientHttpFails(status))
                   \/ (\E content \in OrchContents : ClientHttpSucceeds(content)))
    /\ WF_vars(ClientWakes)
    /\ WF_vars(OrchClientReturns)

\* The provider clients' task IDs: one plan is built, under any behaviour of
\* the clock.
InitClock ==
    /\ apiKey = FALSE
    /\ planner = PlannerIdle
    /\ retryConfig = DefaultRetryConfig
    /\ client = ClientIdle
    /\ providers = {}
    /\ orch = OrchIdle
    /\ store = NoSession
    /\ stamp = StampIdle
    /\ cmd = CmdIdle
    /\ other = OtherIdle
    /\ san = SanIdle
    /\ chat = ChatIdle
    /\ cli = CliIdle

NextClock ==
    \/ StampParsedTasks
    \/ StampFallbackTasks

SpecClock == InitClock /\ [][NextClock]_vars

\* Invocations of the layr program, one after another.
InitCli ==
    /\ apiKey \in BOOLEAN
    /\ planner = PlannerIdle
    /\ retryConfig = DefaultRetryConfig
    /\ client = ClientIdle
    /\ providers = {}
    /\ orch = OrchIdle
    /\ store = NoSession
    /\ stamp = StampIdle
    /\ cmd = CmdIdle
    /\ other = OtherIdle
    /\ san = SanIdle
    /\ chat = ChatIdle
    /\ cli = CliIdle

NextCli ==
    \/ \E goal \in Goals : CliPlan(goal)
    \/ PlannerChatReturns
    \/ \E err \in ChatErrors : PlannerChatThrows(err)
    \/ CliPlanSettles
    \/ CliShow
    \/ \E stepId \in StepIds : CliRun(stepId)
    \/ \E file \in ExportFiles : CliExport(file)

SpecCli == InitCli /\ [][NextCli]_vars

\* One call of LLMClient.chat.
InitChat ==
    /\ apiKey \in BOOLEAN
    /\ planner = PlannerIdle
    /\ retryConfig = DefaultRetryConfig
    /\ client = ClientIdle
    /\ providers = {}
    /\ orch = OrchIdle
    /\ store = NoSession
    /\ stamp = StampIdle
    /\ cli = CliIdle
    /\ cmd = CmdIdle
    /\ other = OtherIdle
    /\ san = SanIdle
    /\ chat = ChatIdle

NextChat ==
    \/ \E copy \in ChatCopies, messages \in ChatMessages : ChatCall(copy, messages)
    \/ \E content \in ChatContents : ChatRequestSucceeds(content)
    \/ \E status \in ChatStatuses : ChatRequestFails(status)
    \/ ChatWakes

SpecChat == InitChat /\ [][NextChat]_vars

\* parseAndValidatePlan on the model outputs.
InitSanitizer ==
    /\ apiKey = FALSE
    /\ planner = PlannerIdle
    /\ retryConfig = DefaultRetryConfig
    /\ client = ClientIdle
    /\ providers = {}
    /\ orch = OrchIdle
    /\ store = NoSession
    /\ stamp = StampIdle
    /\ cli = CliIdle
    /\ chat = ChatIdle
    /\ cmd = CmdIdle
    /\ other = OtherIdle
    /\ san = SanIdle

NextSanitizer ==
    \E title \in Bodies, description \in Descriptions, n \in 0..MaxTasks,
       sep \in Layouts, w \in Wrappings :
        ParseAndValidate(title, description, n, sep, w)

SpecSanitizer == InitSanitizer /\ [][NextSanitizer]_vars

\* Two processes with the same configuration run orchestrator operations on
\* the same session.
RaceHttpStatuses == {404}

RaceContents == {"{plan}"}

InitRace ==
    /\ apiKey = FALSE
    /\ planner = PlannerIdle
    /\ retryConfig = DefaultRetryConfig
    /\ client = ClientIdle
    /\ providers \in SUBSET Providers
    /\ orch = OrchIdle
    /\ store = NoSession
    /\ stamp = StampIdle
    /\ cli = CliIdle
    /\ chat = ChatIdle
    /\ san = SanIdle
    /\ cmd = CmdIdle
    /\ other = OtherIdle

NextRace ==
    \/ OrchCreateSession
    \/ \E prompt \in OrchPrompts, p \in Providers : OrchGeneratePlan(prompt, p)
    \/ \E feedback \in OrchFeedbacks, p \in Providers : OrchRefinePlan(feedback, p)
    \/ OrchClientReturns
    \/ \E status \in RaceHttpStatuses : ClientHttpFails(status)
    \/ \E content \in RaceContents : ClientHttpSucceeds(content)
    \/ SwitchProcess

SpecRace == InitRace /\ [][NextRace]_vars

\* The plan command and the orchestrator's operations, run one after another
\* on the session.
InitCommand ==
    /\ apiKey = FALSE
    /\ planner = PlannerIdle
    /\ retryConfig = DefaultRetryConfig
    /\ client = ClientIdle
    /\ providers \in SUBSET Providers
    /\ orch = OrchIdle
    /\ store = NoSession
    /\ stamp = StampIdle
    /\ cli = CliIdle
    /\ chat = ChatIdle
    /\ san = SanIdle
    /\ other = OtherIdle
    /\ cmd = CmdIdle

NextCommand ==
    \/ OrchCreateSession
    \/ \E prompt \in OrchPrompts, p \in Providers : OrchGeneratePlan(prompt, p)
    \/ \E feedback \in OrchFeedbacks, p \in Providers : OrchRefinePlan(feedback, p)
    \/ \E p \in Providers : OrchGetCritique(p)
    \/ OrchClientReturns
    \/ OrchCritiqueReturns
    \/ \E status \in CommandHttpStatuses : ClientHttpFails(status)
    \/ ClientWakes
    \/ \E content \in CommandContents : ClientHttpSucceeds(content)
    \/ \E task \in TaskDescriptions, choice \in ProviderChoices : CmdPlan(task, choice)
    \/ CmdGenerateReturns
    \/ \E useFallback \in BOOLEAN : CmdFallback(useFallback)
    \/ \E option \in MenuChoices, feedback \in CmdFeedbacks, choice \in ProviderChoices :
           CmdMenu(option, feedback, choice)
    \/ CmdHelperReturns

SpecCommand == InitCommand /\ [][NextCommand]_vars

(***************************************************************************)
(* Claims                                                                  *)
(***************************************************************************)

\* The dependency relation of a plan restricted to the plan's own steps.
OwnEdges(steps) ==
    {e \in Range(IdsOf(steps)) \X Range(IdsOf(steps)) :
        \E i \in DOMAIN steps : steps[i].id = e[1] /\ e[2] \in Range(steps[i].dependencies)}

Successors(E, S) == {e[2] : e \in {d \in E : d[1] \in S}}

RECURSIVE ReachWithin(_, _, _)
ReachWithin(E, S, k) ==
    IF k = 0 THEN S ELSE ReachWithin(E, S \cup Successors(E, S), k - 1)

\* No step reaches itself along one or more edges.
Acyclic(steps) ==
    LET E == OwnEdges(steps)
    IN  \A n \in Range(IdsOf(steps)) :
            n \notin ReachWithin(E, Successors(E, {n}), Len(steps))

PairwiseDistinctIds(steps) ==
    \A i, j \in DOMAIN steps : i # j => steps[i].id # steps[j].id

PlannerValidated ==
    planner.pc = "done" /\ planner.chat = "returned" /\ planner.raw.kind = "plan"

\* C1: the planner's validation accepts a plan-shaped response if and only
\* if its step IDs are pairwise distinct and the dependency relation
\* restricted to the plan's own steps is acyclic.
C1_AcceptsIffDistinctAndAcyclic ==
    PlannerValidated =>
        (planner.out.kind = "plan"
            <=> (PairwiseDistinctIds(planner.raw.steps) /\ Acyclic(planner.raw.steps)))

PlannerDoneWithoutKey ==
    planner.pc = "done" /\ planner.op = "generatePlan" /\ ~apiKey

\* C2: without an API key generatePlan(goal) returns, with no provider call,
\* the plan 'local-fallback' titled 'Plan for: <goal>' with the goal and the
\* four steps 1, 2, 3, 4, step 1 without dependencies and every later step
\* depending on exactly its predecessor.
C2_FallbackPlanWithoutKey ==
    PlannerDoneWithoutKey =>
        /\ planner.chatCalls = 0
        /\ planner.out.kind = "plan"
        /\ planner.out.plan.id = "local-fallback"
        /\ planner.out.plan.title = "Plan for: " \o planner.goal
        /\ planner.out.plan.goal = planner.goal
        /\ Len(planner.out.plan.steps) = 4
        /\ \A k \in 1..4 :
              /\ planner.out.plan.steps[k].id = k
              /\ planner.out.plan.steps[k].dependencies =
                    (IF k = 1 THEN <<>> ELSE <<k - 1>>)

C2_Witness ==
    /\ PlannerDoneWithoutKey
    /\ planner.goal = "Build a REST API"
    /\ planner.out.plan.title = "Plan for: Build a REST API"

\* C3: with an API key, when llm.chat throws, generatePlan does not fail but
\* returns the heuristic fallback plan ('local-fallback', four steps).
C3_FallbackWhenChatThrows ==
    (planner.pc = "done" /\ planner.op = "generatePlan" /\ apiKey
        /\ planner.chat = "threw")
    => /\ planner.out.kind = "plan"
       /\ planner.out.plan.id = "local-fallback"
       /\ Len(planner.out.plan.steps) = 4

\* A client's generatePlan has ended after makeRequest threw, or after a
\* response without content, with unparsable content or with content of an
\* invalid structure.
ClientGenerateFailed ==
    /\ client.pc = "done"
    /\ client.op = "generatePlan"
    /\ \/ client.mr = "threw"
       \/ client.mr = "returned" /\ client.content \in {"", "not json", "{}"}

\* C4: when a provider client's generatePlan fails at any stage, the
\* operation fails with an error to its caller and returns no locally
\* fabricated plan.
C4_ClientFailureIsAnError ==
    ClientGenerateFailed => client.out.kind = "error"

OrchGenerateDone == orch.pc = "done" /\ orch.op = "generatePlan"

\* C5: in Orchestrator.generatePlan with both providers configured, when
\* every HTTP request of the primary provider failed with 503 until its
\* retries were exhausted, the secondary provider's generatePlan is invoked
\* exactly once in the operation.
C5_SecondaryInvokedOnceAfter503 ==
    (/\ OrchGenerateDone
     /\ providers = Providers
     /\ orch.primary.mr = "threw"
     /\ orch.primary.all503
     /\ orch.primary.requests = retryConfig.maxRetries + 1)
    => orch.calls[FallbackProviderOf(orch.provider)] = 1

\* C6: Orchestrator.generatePlan on an existing session always returns a
\* plan, also when no provider is configured or every configured one fails.
C6_GenerateAlwaysReturnsPlan ==
    (OrchGenerateDone /\ orch.session.exists) => orch.out.kind = "plan"

\* base * factor^attempt of the retry configuration
Grown(attempt) == retryConfig.baseDelay * Pow(retryConfig.backoffFactor, attempt)

\* The multiplier the specification gives each failure class.
Multiplier(status) == IF status = 429 THEN 3 ELSE IF status = 402 THEN 2 ELSE 1

\* C7 as stated: the delay makeRequest waits after a failure of any retried
\* class at any attempt index is
\* min(baseDelay * backoffFactor^attempt * multiplier, maxDelay).
C7_DelayCappedAtMaxDelay ==
    client.pc = "sleep" =>
        client.delay = Min(Grown(client.attempt) * Multiplier(client.slept.status),
                           retryConfig.maxDelay)

\* The failure of the latest request is followed by a wait.
WaitsAfterLastError == client.slept = client.lastError

\* C7 amended: the delay waited is min(baseDelay * backoffFactor^attempt *
\* multiplier, cap) with multiplier 3 for 429, 2 for 402 and 1 otherwise, the
\* cap being maxDelay / 2 for 502/503 and maxDelay for the other classes; a
\* failure with 429, 402, 502 or 503 is waited after at every attempt index,
\* a generic failure at the attempt indices below maxRetries only.
C7_DelayWithHalvedCapFor50x ==
    /\ client.pc = "sleep" =>
          client.delay =
              Min(Grown(client.attempt) * Multiplier(client.slept.status),
                  IF client.slept.status \in {502, 503}
                  THEN retryConfig.maxDelay \div 2
                  ELSE retryConfig.maxDelay)
    /\ client.lastError.status \in {429, 402, 502, 503} => WaitsAfterLastError
    /\ client.lastError.status \in {500, NoResponseStatus} =>
          (WaitsAfterLastError <=> client.lastError.req <= retryConfig.maxRetries)

C7_Witness ==
    /\ client.pc = "sleep"
    /\ client.slept.status = 503
    /\ client.attempt = 3
    /\ client.delay = 15000

\* The failure class of a status: 502 and 503 are one class, the failures
\* without a 4xx status (5xx, no response) another.
FailureClass(status) ==
    IF status \in {502, 503} THEN "unavailable"
    ELSE IF status = 429 THEN "rate-limited"
    ELSE IF status = 402 THEN "quota"
    ELSE "generic"

\* C8: for a fixed failure class the delay waited after attempt k + 1 is not
\* smaller than the delay waited after attempt k, no delay exceeds maxDelay,
\* and with baseDelay 2000 and backoffFactor 2 the delays after a 429 at
\* attempts 0, 1, 2 are 6000, 12000, 24000.
C8_DelayMonotoneAndCapped ==
    client.pc = "sleep" =>
        /\ client.delay <= retryConfig.maxDelay
        /\ (/\ client.prevSlept # NoError
            /\ FailureClass(client.prevSlept.status) = FailureClass(client.slept.status))
           => client.prevDelay <= client.delay
        /\ (/\ retryConfig = DefaultRetryConfig
            /\ client.slept.status = 429
            /\ client.attempt \in 0..2)
           => client.delay = (CASE client.attempt = 0 -> 6000
                                [] client.attempt = 1 -> 12000
                                [] client.attempt = 2 -> 24000)

C8_Witness ==
    /\ client.pc = "sleep"
    /\ client.attempt = 2
    /\ client.slept.status = 429 /\ client.delay = 24000
    /\ client.prevSlept.status = 429 /\ client.prevDelay = 12000

\* C9: one call of makeRequest issues at most maxRetries + 1 HTTP requests,
\* and when all of them fail it throws the error of the last request made.
C9_AtMostMaxRetriesPlusOneRequests ==
    /\ client.requests <= retryConfig.maxRetries + 1
    /\ client.mr = "threw" =>
          /\ client.thrown # NoError
          /\ client.thrown.req = client.requests
          /\ client.thrown = client.lastError

C9_Witness ==
    /\ client.mr = "threw"
    /\ client.requests = retryConfig.maxRetries + 1
    /\ client.thrown = HttpError(500, retryConfig.maxRetries + 1)

\* A client-error status other than 429 and 402.
OtherClientError(status) == status \in 400..499 \ {429, 402}

\* C10: when a request fails with a client-error status other than 429 and
\* 402, makeRequest throws that error at once: no sleep follows the failure
\* and no further request is issued in that call.
C10_ClientErrorThrownAtOnce ==
    OtherClientError(client.lastError.status) =>
        /\ client.pc = "done"
        /\ client.mr = "threw"
        /\ client.thrown = client.lastError
        /\ client.lastError.req = client.requests
        /\ ~WaitsAfterLastError

C10_Witness ==
    /\ client.lastError = HttpError(404, 3)
    /\ client.mr = "threw"
    /\ client.sleeps = 2

\* The failures makeRequest retries: 429, 402, 502/503, the other 5xx and the
\* errors without a response.
Retryable(status) ==
    status \in {429, 402, 502, 503} \/ status >= 500 \/ status = NoResponseStatus

\* C11: when the requests of one makeRequest call fail k times
\* (0 <= k <= maxRetries) with retryable failures, a further request follows
\* the k-th failure, and when it succeeds makeRequest returns that response:
\* nothing is thrown and the operation works on the content received.
C11_SuccessAfterRetriesIsReturned ==
    /\ (/\ client.lastError # NoError
        /\ Retryable(client.lastError.status)
        /\ client.lastError.req <= retryConfig.maxRetries)
       => \/ client.pc = "sleep"
          \/ client.pc = "request" /\ client.requests = client.lastError.req + 1
          \/ client.pc = "done" /\ client.mr = "returned"
    /\ client.mr = "returned" =>
          /\ client.pc = "done"
          /\ client.thrown = NoError
          /\ client.content \in Contents
          /\ client.requests = client.lastError.req + 1
          /\ client.sleeps = client.lastError.req
          /\ client.out = OpTry(client, client.content)

C11_Witness ==
    /\ client.mr = "returned"
    /\ client.requests = retryConfig.maxRetries + 1
    /\ client.lastError = HttpError(NoResponseStatus, retryConfig.maxRetries)
    /\ client.prevSlept.status = 402
    /\ client.content = "{plan}"
    /\ client.out.kind = "plan"

\* C12: a model response with two steps of the same ID is rejected whatever
\* its dependencies are: generatePlan and refinePlan throw
\* 'Invalid plan format: Step IDs must be unique', and no plan returned from
\* a model response has two steps with the same ID.
C12_DuplicateIdsRejected ==
    PlannerValidated =>
        /\ ~PairwiseDistinctIds(planner.raw.steps) =>
              planner.out = ErrorResult("Invalid plan format: Step IDs must be unique")
        /\ planner.out.kind = "plan" => PairwiseDistinctIds(planner.out.plan.steps)

C12_Witness ==
    /\ PlannerValidated
    /\ planner.op = "refinePlan"
    /\ planner.raw.steps = << [id |-> 1, dependencies |-> <<>>],
                              [id |-> 1, dependencies |-> <<2>>] >>
    /\ planner.out.kind = "error"

\* Every dependency of every step is the ID of a step of the plan.
DependenciesClosed(steps) ==
    \A i \in DOMAIN steps : Range(steps[i].dependencies) \subseteq Range(IdsOf(steps))

\* The example plans with the steps and the lists in the order of the text.
ExampleCyclic ==
    << [id |-> 1, dependencies |-> <<>>], [id |-> 2, dependencies |-> <<1>>],
       [id |-> 3, dependencies |-> <<2, 4>>], [id |-> 4, dependencies |-> <<3>>] >>

ExampleAcyclic == [ExampleCyclic EXCEPT ![4].dependencies = <<>>]

\* The steps are those of D, each with the dependencies D gives it, in some
\* order.
HasDeps(steps, D) ==
    /\ Range(IdsOf(steps)) = DOMAIN D
    /\ \A i \in DOMAIN steps : Range(steps[i].dependencies) = D[steps[i].id]

\* C13: for a plan with distinct step IDs whose dependencies all name steps
\* of the plan, hasCycles returns true exactly when the dependency graph has
\* a directed cycle (a self-dependency included), in whatever order the
\* steps and the dependency lists are given; the plan
\* {1 -> [], 2 -> [1], 3 -> [2, 4], 4 -> [3]} is rejected and the same plan
\* with 4 -> [] is accepted.
C13_HasCyclesIffDirectedCycle ==
    (/\ PlannerValidated
     /\ PairwiseDistinctIds(planner.raw.steps)
     /\ DependenciesClosed(planner.raw.steps))
    => /\ hasCycles(planner.raw.steps) =
             (IF Acyclic(planner.raw.steps) THEN "false" ELSE "true")
       /\ planner.out =
             (IF Acyclic(planner.raw.steps)
              THEN PlanResult(ParsedPlan(planner.raw))
              ELSE ErrorResult("Invalid plan format: Plan has cyclic dependencies"))
       /\ HasDeps(planner.raw.steps, ExampleCyclicDeps) => planner.out.kind = "error"
       /\ HasDeps(planner.raw.steps, ExampleAcyclicDeps) => planner.out.kind = "plan"

C13_Witness ==
    /\ PlannerValidated
    /\ planner.raw.steps = ExampleCyclic
    /\ planner.out = ErrorResult("Invalid plan format: Plan has cyclic dependencies")

\* C14: for every goal the heuristic plan generatePlan returns without an
\* API key has pairwise distinct step IDs, every dependency names a step of
\* the plan with a strictly smaller ID than the depending step, and the plan
\* passes hasUniqueIds and is not reported cyclic by hasCycles.
C14_HeuristicPlanIsValid ==
    PlannerDoneWithoutKey =>
        LET steps == planner.out.plan.steps
        IN  /\ planner.out.kind = "plan"
            /\ PairwiseDistinctIds(steps)
            /\ \A i \in DOMAIN steps :
                  \A d \in Range(steps[i].dependencies) :
                      /\ \E j \in DOMAIN steps : steps[j].id = d
                      /\ d < steps[i].id
            /\ hasUniqueIds(steps)
            /\ hasCycles(steps) = "false"

C14_Witness ==
    /\ PlannerDoneWithoutKey
    /\ planner.goal = ""
    /\ Len(planner.out.plan.steps) = 4
    /\ hasCycles(planner.out.plan.steps) = "false"

\* A provider client's generatePlan or refinePlan has returned the plan it
\* parsed from the model's response.
ClientReturnedModelPlan ==
    /\ client.pc = "done"
    /\ client.op \in {"generatePlan", "refinePlan"}
    /\ client.mr = "returned"
    /\ client.content \notin {"", "not json", "{}"}
    /\ client.out.kind = "plan"

\* Every dependency of every task is the ID of a task of the plan.
TaskDependenciesClosed(tasks) ==
    \A i \in DOMAIN tasks :
        \A d \in Range(tasks[i].dependencies) : \E j \in DOMAIN tasks : tasks[j].id = d

\* The planner's half of C15: a plan returned from a model response has
\* every dependency naming a step of the plan.
PlannerPlanIsClosed ==
    (PlannerValidated /\ planner.out.kind = "plan")
        => DependenciesClosed(planner.out.plan.steps)

\* C15: every plan that a plan-producing operation returns from a model
\* response (the planner's generatePlan / refinePlan with a key, a provider
\* client's generatePlan / refinePlan) has each dependency of each step equal
\* to the ID of a step of that same plan.
C15_ReturnedPlanHasReferentialIntegrity ==
    /\ PlannerPlanIsClosed
    /\ ClientReturnedModelPlan => TaskDependenciesClosed(client.out.plan.tasks)

\* The provider clients' half of C16: refinePlan returns a plan with the id
\* and createdAt of the plan passed in, after a parsed response and after a
\* failure.
ClientRefineKeepsIdentity ==
    (client.pc = "done" /\ client.op = "refinePlan" /\ client.out.kind = "plan")
        => /\ client.out.plan.id = client.input.id
           /\ client.out.plan.createdAt = client.input.createdAt

\* C16: every refine operation (a provider client's refinePlan, the
\* planner's refinePlan) returns a plan whose id, and createdAt where the plan
\* type has one, equal those of the plan passed in, on the success path and
\* on every failure path that returns a plan.
C16_RefineKeepsIdAndCreatedAt ==
    /\ ClientRefineKeepsIdentity
    /\ (planner.pc = "done" /\ planner.op = "refinePlan" /\ planner.out.kind = "plan")
          => planner.out.plan.id = planner.input.id

\* An orchestrator operation that got past its session check (the session it
\* loaded exists and, for refinePlan, has a current plan).
OrchOperationStarted ==
    orch.op \in {"generatePlan", "refinePlan"} /\ orch.session.exists

\* C17: when the caller names a provider that is not configured,
\* Orchestrator.generatePlan and refinePlan invoke no provider client, the
\* other provider's included, whatever providers are configured, and the
\* operation fails with the named provider's 'client not available' error.
C17_NoSubstituteForUnconfiguredProvider ==
    (OrchOperationStarted /\ orch.provider \notin providers)
    => /\ \A p \in Providers : orch.calls[p] = 0
       /\ orch.pc = "done"
       /\ orch.out = ErrorResult(ClientNotAvailable(orch.provider))

C17_Witness ==
    /\ OrchOperationStarted
    /\ orch.op = "refinePlan"
    /\ orch.provider = "mistral"
    /\ providers = {"deepseek"}
    /\ orch.out.msg = "mistral client not available. Check your API key configuration."

\* The provider-client calls made so far in the operation.
CallsMade == orch.calls["mistral"] + orch.calls["deepseek"]

\* A provider-client call starts in this step.
ProviderCallStarts ==
    /\ client' # client
    /\ client'.pc = "request"
    /\ client'.requests = 1

\* The state half of C18: at most two calls, at most one to each provider,
\* and a call to the fallback provider only after the primary provider's
\* call has completed without a plan.
AtMostTwoCallsInSequence ==
    /\ CallsMade <= 2
    /\ \A p \in Providers : orch.calls[p] <= 1
    /\ orch.pc = "primary" => CallsMade = 1
    /\ (orch.op # "none" /\ orch.calls[FallbackProviderOf(orch.provider)] > 0)
          => /\ orch.calls[orch.provider] = 1
             /\ orch.primary.kind = "error"
    /\ orch.primary.kind = "plan" =>
          orch.calls[FallbackProviderOf(orch.provider)] = 0

\* C18: within one Orchestrator.generatePlan or refinePlan operation at most
\* two provider-client calls are made, a call starts only while no other call
\* is in progress, the fallback call starts only after the primary call has
\* completed with a failure, and it is never made when the primary call
\* returned a plan.
C18_AtMostTwoSequentialProviderCalls ==
    /\ []AtMostTwoCallsInSequence
    /\ [][ProviderCallStarts => client.pc \in {"idle", "done"}]_vars

C18_Witness ==
    /\ orch.pc = "done"
    /\ orch.op = "refinePlan"
    /\ providers = Providers
    /\ orch.primary.mr = "threw"
    /\ orch.primary.kind = "plan"
    /\ orch.calls[orch.provider] = 1
    /\ orch.calls[FallbackProviderOf(orch.provider)] = 0

\* C19: every Orchestrator.generatePlan call that returns a plan has
\* appended, after the user's message, exactly one assistant message
\* 'Generated plan: <title>' to the conversation and has persisted the
\* session with that plan as the last of plans and as currentPlan.
C19_SuccessIsRecordedAndPersisted ==
    (OrchGenerateDone /\ orch.out.kind = "plan")
    => /\ store = orch.session
       /\ store.conversation =
             orch.loaded.conversation
                 \o << Message("user", orch.prompt),
                       Message("assistant", "Generated plan: " \o orch.out.plan.title) >>
       /\ store.plans = Append(orch.loaded.plans, orch.out.plan)
       /\ store.hasCurrentPlan
       /\ store.currentPlan = orch.out.plan

C19_Witness ==
    /\ OrchGenerateDone
    /\ orch.out.kind = "plan"
    /\ Len(store.plans) = 2
    /\ store.plans[1] # store.plans[2]
    /\ Len(store.conversation) = 4

\* C20: when Orchestrator.generatePlan ends in failure on an existing
\* session, an assistant message 'Failed to generate plan: ...' has been
\* appended after the user's message and the session persisted, and the
\* persisted plans, currentPlan and totalInteractions are those of before the
\* operation.
C20_FailureIsRecordedAndPlansKept ==
    (OrchGenerateDone /\ orch.session.exists /\ orch.out.kind = "error")
    => /\ store = orch.session
       /\ store.conversation =
             orch.loaded.conversation
                 \o << Message("user", orch.prompt),
                       Message("assistant", "Failed to generate plan: " \o orch.out.msg) >>
       /\ store.plans = orch.loaded.plans
       /\ store.hasCurrentPlan = orch.loaded.hasCurrentPlan
       /\ store.currentPlan = orch.loaded.currentPlan
       /\ store.totalInteractions = orch.loaded.totalInteractions

C20_Witness ==
    /\ OrchGenerateDone
    /\ orch.session.exists
    /\ orch.out.kind = "error"
    /\ Len(store.plans) = 1
    /\ store.totalInteractions = 1
    /\ Len(store.conversation) = 4


IsPrefix(s, t) == Len(s) <= Len(t) /\ SubSeq(t, 1, Len(s)) = s

\* C21: the persisted conversation of a session is append-only: whatever
\* operation saves the session (generatePlan, refinePlan, getCritique of the
\* orchestrator, the plan command's own saves, its mock-plan fallback after
\* a failed generation included), the conversation persisted before is a
\* prefix of the conversation persisted after.
C21_ConversationAppendOnly ==
    [][store.exists => IsPrefix(store.conversation, store'.conversation)]_vars

\* Both processes have returned a plan from generatePlan or refinePlan.
BothReturnedPlans ==
    /\ orch.pc = "done" /\ orch.out.kind = "plan"
    /\ other.orch.pc = "done" /\ other.orch.out.kind = "plan"

\* Both operations got the same session from getSession.  An operation's save
\* makes the conversation longer than what it loaded, so neither of the two
\* loaded what the other saved: both loaded before either saved.
BothLoadedBeforeEitherSaved ==
    /\ orch.loaded.exists
    /\ orch.loaded = other.orch.loaded

Contents_(conversation) == {conversation[i].content : i \in DOMAIN conversation}

\* C22: there is no concurrency control between requests: when two
\* orchestrator operations on the same session both load the session before
\* either saves and both return successfully, the persisted session is the
\* one of the operation that saved last; it holds one plan and two messages
\* more than what was loaded, so the plan and the messages of the operation
\* that saved first are lost.
C22_InterleavedOperationsLoseFirstSave ==
    (BothReturnedPlans /\ BothLoadedBeforeEitherSaved) =>
        /\ store \in {orch.session, other.orch.session}
        /\ Len(store.conversation) = Len(orch.loaded.conversation) + 2
        /\ Len(store.plans) = Len(orch.loaded.plans) + 1

\* A generatePlan and a refinePlan ran interleaved, both returned a plan, the
\* refinePlan saved last and the prompt of the generatePlan is not in the
\* persisted conversation.
C22_Witness ==
    /\ BothReturnedPlans
    /\ BothLoadedBeforeEitherSaved
    /\ orch.op = "refinePlan"
    /\ other.orch.op = "generatePlan"
    /\ store = orch.session
    /\ Len(store.plans) < Len(orch.loaded.plans) + 2
    /\ "Generated plan: " \o other.orch.out.plan.title \notin Contents_(
           SubSeq(store.conversation, Len(orch.loaded.conversation) + 1,
                  Len(store.conversation)))

\* The model output held a JSON object with title, description and tasks.
ObjectIsJson == san.pc = "done" /\ JsonParse(san.object).ok

ExampleObject == ObjectText(<<"x">>, <<"y">>, 0, <<>>)

\* C23: for a JSON object {title, description, tasks} wrapped in a fence
\* tagged json, sanitization followed by parsing yields an object with the
\* same title, description and tasks; for title "x", description "y" and no
\* tasks the result has title x, description y and no tasks.
C23_JsonFenceRoundTrip ==
    (ObjectIsJson /\ san.kind = "json fence") =>
        /\ san.parsed = JsonParse(san.object)
        /\ san.object = ExampleObject =>
               san.parsed = [ok |-> TRUE, title |-> <<"x">>, description |-> <<"y">>,
                             tasks |-> <<>>]

\* C24: when the model output is one valid JSON plan object with text that
\* is no JSON before and/or after it, the extraction step selects exactly
\* that object as the candidate, and parsing succeeds and yields that object.
C24_ExtractionSelectsTheObject ==
    (ObjectIsJson /\ san.kind \in {"preamble", "postamble", "both"}) =>
        /\ san.candidate = san.object
        /\ san.parsed = JsonParse(san.object)

\* C25: the clean-up step removes only raw control characters: the string
\* handed to the JSON parser is the candidate without its control characters,
\* so every escaped sequence \n, \r, \t and \\ of the candidate is in it
\* unchanged and at the same relative position.
C25_CleanUpRemovesOnlyControlCharacters ==
    san.pc = "done" => san.cleaned = RemoveControl(san.candidate)

RECURSIVE Doubled(_, _)
\* delay after k doublings
Doubled(delay, k) == IF k = 0 THEN delay ELSE 2 * Doubled(delay, k - 1)

\* C26: chat retries a request only when it failed with status 429 (every
\* failed request but the last of a call was rate-limited), waits before each
\* retry a delay that doubles from the initial delay, makes at most
\* maxAttempts requests in one call, and after maxAttempts rate-limited
\* requests fails with a rate-limit error.
C26_ChatRetriesOnlyOn429WithDoublingDelay ==
    chat.pc # "idle" =>
        /\ chat.requests <= chat.copy.maxAttempts
        /\ \A i \in 1..(chat.requests - 1) :
               /\ chat.failures[i] = 429
               /\ chat.sleeps[i] = Doubled(chat.copy.delay, i - 1)
        /\ (Len(chat.failures) = chat.copy.maxAttempts
            /\ chat.failures[chat.copy.maxAttempts] = 429
            /\ chat.pc = "done") =>
               chat.out \in {ChatError(c.error) : c \in ChatCopies}

\* chat gave up after maxAttempts rate-limited requests and waits of
\* 5000, 10000 and 20000.
C26_Witness ==
    /\ chat.pc = "done"
    /\ chat.requests = 3
    /\ chat.failures = <<429, 429, 429>>
    /\ chat.sleeps = <<5000, 10000, 20000>>
    /\ chat.out.kind = "error"

Count429(failures) == Cardinality({i \in DOMAIN failures : failures[i] = 429})

\* C27: when a request fails with status 401 chat fails at once with
\* 'Unauthorized: Invalid API key', any failure other than 429 and 401 is
\* rethrown unchanged, and in both cases no retry and no sleep follows,
\* whatever number of 429 retries preceded: the call is over, with as many
\* requests as failures and as many sleeps as 429 failures.
C27_ChatFailsAtOnceOnOtherStatuses ==
    (Len(chat.failures) > 0 /\ chat.failures[Len(chat.failures)] # 429) =>
        LET status == chat.failures[Len(chat.failures)]
        IN  /\ chat.pc = "done"
            /\ chat.out = IF status = 401
                          THEN ChatError("Unauthorized: Invalid API key")
                          ELSE ApiError(status)
            /\ chat.requests = Len(chat.failures)
            /\ Len(chat.sleeps) = Count429(chat.failures)
            /\ Count429(chat.failures) = Len(chat.failures) - 1

\* A 500 after two rate-limited requests was rethrown.
C27_Witness ==
    /\ chat.pc = "done"
    /\ chat.failures = <<429, 429, 500>>
    /\ chat.out = ApiError(500)
    /\ Len(chat.sleeps) = 2

\* getCritique has run to its end and the critique request of its provider
\* client failed: makeRequest threw, after its retries or at once.
CritiqueRequestFailed ==
    /\ orch.pc = "done"
    /\ orch.op = "getCritique"
    /\ orch.calls[orch.provider] = 1
    /\ client.op = "critique"
    /\ client.mr = "threw"

\* C28: when the critique request fails (retries exhausted or an error that
\* is not retried), the provider client's critique fails with an error
\* rather than returning a critique string, and getCritique throws and
\* leaves the persisted session (conversation, totalInteractions) unchanged.
C28_CritiqueFailureIsAnError ==
    CritiqueRequestFailed =>
        /\ client.out.kind = "error"
        /\ orch.out.kind = "error"
        /\ store = orch.loaded

\* A `show`, `run <stepId>` or `export` invocation has ended, after a
\* `plan <goal>` invocation had completed with a plan.
LaterCommandAfterPlan ==
    /\ cli.pc = "exited"
    /\ cli.command \in {"show", "run", "export"}
    /\ cli.planned

\* C29: after a `plan <goal>` invocation of the CLI has completed
\* successfully, a later `show`, `run <stepId>` or `export` invocation
\* operates on that plan: it does not report 'No plan loaded'.
C29_LaterCommandsOperateOnThePlan ==
    LaterCommandAfterPlan =>
        /\ cli.out # NoPlanLoaded
        /\ cli.process.hasCurrentPlan
        /\ cli.process.currentPlan = cli.lastPlan

\* C30: in makeRequest a backoff sleep happens only between two attempts:
\* no sleep follows the last permitted attempt (attempt index maxRetries), so
\* one call sleeps at most maxRetries times, and no HTTP request is in flight
\* during a sleep (the latest request has failed).
C30_SleepOnlyBetweenAttempts ==
    /\ client.pc = "sleep" => client.attempt < retryConfig.maxRetries
    /\ client.sleeps <= retryConfig.maxRetries
    /\ client.pc = "sleep" => client.lastError.req = client.requests

\* An Orchestrator.refinePlan operation has ended after it had loaded a
\* session with a current plan, and every provider call it made failed: the
\* primary provider's client was missing or its makeRequest threw, and so
\* for the fallback provider's call when one was made.
EveryRefineCallFailed ==
    /\ orch.pc = "done"
    /\ orch.op = "refinePlan"
    /\ orch.loaded.exists
    /\ orch.primary.mr \in {"none", "threw"}
    /\ (orch.calls[FallbackProviderOf(orch.provider)] > 0) => client.mr = "threw"

\* C31: if every provider call made during Orchestrator.refinePlan fails,
\* the operation throws an error, the persisted conversation ends with one
\* assistant message 'Failed to refine plan: ...' after the user's message,
\* and the persisted plans, currentPlan and totalInteractions are those of
\* before the operation.
C31_RefineFailureKeepsPlans ==
    EveryRefineCallFailed =>
        /\ orch.out.kind = "error"
        /\ store.conversation =
              orch.loaded.conversation
                  \o << Message("user", "Refine plan: " \o orch.prompt),
                        Message("assistant", "Failed to refine plan: " \o orch.out.msg) >>
        /\ store.plans = orch.loaded.plans
        /\ store.currentPlan = orch.loaded.currentPlan
        /\ store.totalInteractions = orch.loaded.totalInteractions

\* The planner's generatePlan or refinePlan has run its try block on a
\* response of the model.
PlannerSettledOnResponse ==
    /\ planner.pc = "done"
    /\ planner.op \in {"generatePlan", "refinePlan"}
    /\ planner.chat = "returned"

\* C32: validation is read-only and pass/fail: when the planner's
\* generatePlan or refinePlan accepts a model response, the plan it returns
\* has exactly the steps of the parsed response, in their order and
\* unaltered; when it rejects the response, it throws and returns no plan.
C32_ValidationIsReadOnly ==
    PlannerSettledOnResponse =>
        /\ planner.out.kind \in {"plan", "error"}
        /\ planner.out.kind = "plan" =>
              /\ planner.raw.kind = "plan"
              /\ planner.out.plan.steps = planner.raw.steps
              /\ planner.out.msg = ""
        /\ planner.out.kind = "error" => planner.out.plan = NoPlan

C32_Witness ==
    /\ PlannerSettledOnResponse
    /\ planner.op = "refinePlan"
    /\ planner.out.kind = "plan"
    /\ Len(planner.raw.steps) = 2
    /\ planner.raw.steps[1].id = 2
    /\ planner.raw.steps[1].dependencies = <<1>>

\* An Orchestrator.generatePlan or refinePlan operation awaits a provider
\* client's call.
OrchAwaitsProvider ==
    /\ orch.pc \in {"primary", "fallback"}
    /\ orch.op \in {"generatePlan", "refinePlan"}

\* The HTTP requests issued so far within the current generatePlan or
\* refinePlan operation: those of the primary provider's call and those of
\* the fallback provider's call.
RequestsOfOperation ==
    IF orch.op \notin {"generatePlan", "refinePlan"} THEN 0
    ELSE IF orch.pc = "primary" THEN client.requests
    ELSE IF orch.calls[FallbackProviderOf(orch.provider)] > 0 /\ orch.primary.mr # "none"
    THEN orch.primary.requests + client.requests
    ELSE orch.primary.requests

\* C33: provided each HTTP request and each sleep completes, every
\* Orchestrator.generatePlan and refinePlan operation that awaits a provider
\* ends (returns a plan or throws), and an operation issues at most
\* 2 * (maxRetries + 1) HTTP requests across both providers.
C33_OperationsTerminateWithinRequestBound ==
    /\ [](RequestsOfOperation <= 2 * (retryConfig.maxRetries + 1))
    /\ OrchAwaitsProvider ~> (orch.pc = "done")

C33_Witness ==
    /\ orch.pc = "done"
    /\ orch.op = "refinePlan"
    /\ orch.primary.mr = "threw"
    /\ RequestsOfOperation = retryConfig.maxRetries + 1
    /\ client.sleeps = retryConfig.maxRetries + 1

\* C34: in every plan built by parseAndValidatePlan there is one task per
\* element of parsed.tasks, each task's ID is the locally generated
\* task_<clock reading>_<index>, and the IDs are pairwise distinct, whatever
\* id fields the model supplied and whether or not the clock advanced while
\* the tasks were stamped.
C34_ParsedTaskIdsDistinct ==
    stamp.op = "parseAndValidatePlan" =>
        /\ Len(stamp.tasks) = Len(stamp.input)
        /\ \A i \in DOMAIN stamp.tasks :
              \E now \in 0..MaxClock :
                  stamp.tasks[i].id = "task_" \o ToString(now) \o "_" \o ToString(i - 1)
        /\ PairwiseDistinctIds(stamp.tasks)

C34_Witness ==
    /\ stamp.op = "parseAndValidatePlan"
    /\ Len(stamp.tasks) = 3
    /\ stamp.input[1].id = "t1"
    /\ stamp.input[2].id = "t1"
    /\ stamp.input[3].id = "task_0_0"
    /\ stamp.readings[1] = stamp.readings[2]
    /\ stamp.readings[2] < stamp.readings[3]

\* C35: the tasks of the plan built by getFallbackPlan have pairwise distinct
\* IDs, and each dependency is the ID of an earlier task of the same plan,
\* for every behaviour of the clock.
C35_FallbackPlanClosedUnderAnyClock ==
    stamp.op = "getFallbackPlan" =>
        /\ PairwiseDistinctIds(stamp.tasks)
        /\ \A i \in DOMAIN stamp.tasks :
              \A k \in DOMAIN stamp.tasks[i].dependencies :
                  \E j \in 1..(i - 1) :
                      stamp.tasks[i].dependencies[k] = stamp.tasks[j].id

\* C36: whenever at least one provider is configured, the provider the plan
\* command passes to Orchestrator.generatePlan is a member of
\* availableProviders, for each configuration and every user choice.
C36_CommandRequestsConfiguredProvider ==
    (cmd.pc = "generating" /\ availableProviders # {}) =>
        /\ orch.op = "generatePlan"
        /\ orch.provider = cmd.provider
        /\ orch.provider \in availableProviders

\* The plan command's refine step ends: its refinePlan helper returns from
\* the awaited Orchestrator.refinePlan and the command is back at its menu.
RefineStepEnds == cmd.pc = "refining" /\ cmd'.pc = "menu"

\* C37: in the plan command's refinement loop, after a refine step the plan
\* the command holds and displays is the currentPlan of the persisted
\* session, for every sequence of generate, refine and critique choices.
C37_CommandHoldsPersistedPlanAfterRefine ==
    [][RefineStepEnds =>
           /\ cmd'.hasPlan
           /\ store'.hasCurrentPlan
           /\ cmd'.plan = store'.currentPlan]_vars

\* C38: in every persisted session state reachable through createSession,
\* Orchestrator.generatePlan, Orchestrator.refinePlan, getCritique and the
\* plan command's mock-plan path, currentPlan is unset exactly when plans is
\* empty, and otherwise currentPlan is the last element of plans.
C38_CurrentPlanIsLastOfPlans ==
    store.exists =>
        /\ store.hasCurrentPlan <=> store.plans # <<>>
        /\ store.hasCurrentPlan => store.currentPlan = store.plans[Len(store.plans)]
        /\ ~store.hasCurrentPlan => store.currentPlan = NoPlan

C38_Witness ==
    /\ store.exists
    /\ Len(store.plans) = 2
    /\ store.plans[1] # store.plans[2]
    /\ store.currentPlan = store.plans[2]
    /\ store.plans[2] = createMockPlan("Build a REST API")
    /\ cmd.pc = "done"

\* A caller invokes the Orchestrator operation op.
OperationStarts(op) ==
    /\ orch.pc \in {"idle", "done"}
    /\ orch' # orch
    /\ orch'.op = op

\* The operation throws at once: no provider client is called and nothing
\* is written.
ThrowsBeforeAnyCallOrWrite ==
    /\ orch'.pc = "done"
    /\ orch'.out.kind = "error"
    /\ \A p \in Providers : orch'.calls[p] = 0
    /\ client' = client
    /\ store' = store

\* C39: when the session does not exist (generatePlan, refinePlan,
\* getCritique) or has no current plan (refinePlan, getCritique), the
\* Orchestrator operation throws before calling any provider and before
\* writing anything: the session store is unchanged.
C39_MissingSessionOrPlanThrowsEarly ==
    [][/\ (OperationStarts("generatePlan") /\ ~store.exists)
            => ThrowsBeforeAnyCallOrWrite /\ orch'.out.msg = "Session not found"
       /\ ((OperationStarts("refinePlan") \/ OperationStarts("getCritique"))
              /\ (~store.exists \/ ~store.hasCurrentPlan))
            => ThrowsBeforeAnyCallOrWrite
               /\ orch'.out.msg = "Session or current plan not found"]_vars

C39_Witness ==
    /\ orch.pc = "done"
    /\ orch.op = "refinePlan"
    /\ orch.out = ErrorResult("Session or current plan not found")
    /\ store.exists
    /\ ~store.hasCurrentPlan
    /\ Len(store.conversation) = 2

====
